---------------------------- MODULE Spec2Model ----------------------------
(***************************************************************************)
(* A model of the operation orchestration layer of the Git repository      *)
(* manager: AppController (app/controllers/app_controller.py), the          *)
(* data-collection pass (app/services/repo_data_service.py) and the         *)
(* streaming runner (app/services/git_stream.py).                           *)
(*                                                                         *)
(* One UI thread runs the handlers (start_refresh, run_git_sequence and    *)
(* its callers, try_set_repo, _poll); each accepted operation runs in one  *)
(* worker thread whose only effect on the controller is to put events on   *)
(* the queue _q.  External git commands are the environment: the outcome   *)
(* of each one is drawn nondeterministically.                              *)
(***************************************************************************)
EXTENDS Integers, Sequences, FiniteSets, TLC

VARIABLES
    running,    \* AppController._running
    repo_root,  \* AppController._repo_root (NoRepo models None)
    q,          \* AppController._q, the FIFO of events
    workers,    \* the worker threads, one record per thread slot
    view,       \* the state of the widgets the handlers read and write
    applied,    \* history: the events _poll applied since the last begin_operation
    logged,     \* history: the lines begin_operation and _poll appended to the log since the
                \* last begin_operation
    call,       \* history: the entry-point invocation just made, and what it did
    probe       \* the arguments and the result of a function checked on its own

vars == <<running, repo_root, q, workers, view, applied, logged, call, probe>>

-----------------------------------------------------------------------------
(* Bounds of the model *)

\* thread slots: more than one, so that two live workers are representable
MaxWorkers == 2
\* output lines one operation's commands print in total
MaxLines == 1

-----------------------------------------------------------------------------
(* Values *)

NoRepo == "none"
Roots == {"repoA"}
Remotes == {"origin"}
WorkerIds == 1..MaxWorkers

\* exit codes of a git process: success and failure
ExitCodes == {0, 1}

\* what one output line of a streamed command looks like to stream_git
LineKinds == {"plain", "progress", "prompt"}

\* RepoData, reduced to the fields the orchestration layer depends on:
\* remote_queried tells whether remote_branches/remote_tags came from ls-remote
\* (FALSE: both are the empty list)
NoData == [remotes |-> {}, remote_queried |-> FALSE]

RepoData(remotes, queried) ==
    [remotes |-> remotes, remote_queried |-> queried]

\* Events are the tuples put on _q; every event has the same fields so that
\* events of different kinds can be compared.
Event(kind, tag, arg, rc, ok, data) ==
    [kind |-> kind, tag |-> tag, arg |-> arg, rc |-> rc, ok |-> ok, data |-> data]

LogEv(tag, arg, rc) == Event("log", tag, arg, rc, FALSE, NoData)
ProgressEv == Event("progress", "stage", "", 0, FALSE, NoData)
ErrorEv(tag, arg, rc) == Event("error", tag, arg, rc, FALSE, NoData)
DataEv(d) == Event("data", "", "", 0, FALSE, d)
DoneEv(ok, msg, title) == Event("done", msg, title, 0, ok, NoData)

\* call is NoCall except in the state an invocation of start_refresh or of a
\* handler of run_git_sequence leaves
NoCall ==
    [entry |-> "none", busy |-> FALSE, loaded |-> FALSE, git |-> FALSE,
     raised |-> FALSE, started |-> FALSE]

\* no function is being checked on its own: the controller is running
NoProbe ==
    [fn |-> "none", listing |-> <<>>, returned |-> FALSE, names |-> <<>>, sha |-> {}]

\* the record of one invocation: whether _running was set and a repository
\* loaded when it was made, whether the handler itself ran a git command,
\* whether it raised, and whether it started a worker
Call(entry, root, git, raised, started) ==
    [entry |-> entry, busy |-> running, loaded |-> root # NoRepo, git |-> git,
     raised |-> raised, started |-> started]

-----------------------------------------------------------------------------
(* The environment: outcomes of external git commands *)

\* `git remote` run by git_capture on the UI thread: non-zero exit (ok = FALSE,
\* git_capture raises GitCommandError) or the configured remote names
GitRemoteOutcomes ==
    {[ok |-> FALSE, names |-> {}]} \cup {[ok |-> TRUE, names |-> s] : s \in SUBSET Remotes}

\* what one data-collection pass meets:
\*   local  - "ok": every local query exits zero; "fail": a local query whose
\*            error is not caught (status, remote, for-each-ref, tag) exits
\*            non-zero; "raise": subprocess.run itself raises (OSError)
\*   remote - the two ls-remote queries: "ok" or "fail" (non-zero exit)
\*   names  - the remotes `git remote` lists
CollectEnvs ==
    {[local |-> "raise", remote |-> "ok", names |-> {}],
     [local |-> "fail", remote |-> "ok", names |-> {}]}
    \cup [local : {"ok"}, remote : {"ok", "fail"}, names : SUBSET Remotes]

\* the first remote name of a listing (values[0], remote_names[0])
FirstRemote(names) == CHOOSE r \in names : TRUE

\* collect_repo_data(repo_root, remote_query=rq) in environment env.
\* `self._repo_root or ""` is passed as repo_root: with no repository the
\* working directory is "" and the first subprocess.run raises.
\* Result: status "data" with the RepoData, "cmd_error" (GitCommandError
\* propagates) or "exception" (any other exception propagates).
collect_repo_data(root, rq, env) ==
    IF root = NoRepo \/ env.local = "raise"
    THEN [status |-> "exception", data |-> NoData]
    ELSE IF env.local = "fail"
    THEN [status |-> "cmd_error", data |-> NoData]
    ELSE IF rq # "" /\ env.remote = "fail"
    THEN [status |-> "cmd_error", data |-> NoData]
    ELSE [status |-> "data", data |-> RepoData(env.names, rq # "")]

-----------------------------------------------------------------------------
(* Worker threads *)

\* The locals of one worker closure (pc is its position) and its history:
\*   started - the indices of the steps whose process was spawned, in order
\*   exits   - the exit codes of the steps that terminated, in order
\*   passes  - the data-collection passes made: remote_query and result status
\*   emitted - the events this worker has put on the queue
IdleWorker ==
    [pc |-> "idle", kind |-> "none", title |-> "", commands |-> <<>>,
     refresh_after |-> FALSE, remote_query |-> "", i |-> 0,
     ok |-> FALSE, message |-> "", lines |-> 0,
     started |-> <<>>, exits |-> <<>>, passes |-> <<>>, emitted |-> <<>>]

\* the history record of one data-collection pass
Pass(rq, r) == [rq |-> rq, status |-> r.status]

\* a slot is free when no thread runs in it: never started, or its thread ended
Free(w) == workers[w].pc \in {"idle", "done"}

\* a worker is active from Thread.start() until it has enqueued its done event
Active(w) == ~Free(w)

FreeSlots == {w \in WorkerIds : Free(w)}

\* threading.Thread(target=worker).start(): the new thread takes the lowest free slot
NewSlot == CHOOSE w \in FreeSlots : \A v \in FreeSlots : w <= v

\* Fault: a queue that hands out the newest item first
emit_newest_first(queue, events) == events \o queue

\* self.emit(kind, *payload): self._q.put(...)
emit(queue, events) == queue \o events

\* the worker closure of start_refresh, as Thread.start() leaves it
RefreshWorker(rq) ==
    [IdleWorker EXCEPT !.pc = "collect", !.kind = "refresh", !.title = "refresh",
                       !.remote_query = rq, !.message = "refresh_failed"]

\* the worker closure of run_git_sequence, as Thread.start() leaves it
SeqWorker(title, commands, refresh_after, rq) ==
    [IdleWorker EXCEPT !.pc = "spawn", !.kind = "seq", !.title = title,
                       !.commands = commands, !.refresh_after = refresh_after,
                       !.remote_query = rq, !.i = 1, !.ok = TRUE,
                       !.message = "seq_failed"]

\* Fault: the worker that enqueues its done event clears _running itself
WorkerStep_clears_flag(w, rec, events) ==
    /\ workers' = [workers EXCEPT ![w] = [rec EXCEPT !.emitted = @ \o events]]
    /\ q' = emit(q, events)
    /\ running' = (running /\ rec.pc # "done")
    /\ UNCHANGED probe
    /\ call' = NoCall
    /\ UNCHANGED <<repo_root, view, applied, logged>>

\* a worker step: the worker record becomes rec and puts events on the queue
WorkerStep(w, rec, events) ==
    /\ workers' = [workers EXCEPT ![w] = [rec EXCEPT !.emitted = @ \o events]]
    /\ q' = emit(q, events)
    /\ UNCHANGED probe
    /\ call' = NoCall
    /\ UNCHANGED <<running, repo_root, view, applied, logged>>

\* Fault: the done event emitted on the success path only, not in a finally
done_events_on_success_only(wk) ==
    IF wk.ok THEN <<DoneEv(wk.ok, wk.message, wk.title)>> ELSE <<>>

\* Fault: a log line emitted after the done event
done_events_then_log(wk) ==
    <<DoneEv(wk.ok, wk.message, wk.title), LogEv("finished", wk.title, 0)>>

\* the finally clause of both workers: self.emit("done", ok, message)
done_events(wk) == <<DoneEv(wk.ok, wk.message, wk.title)>>

WorkerFinish(w) ==
    /\ workers[w].pc = "finish"
    /\ WorkerStep(w, [workers[w] EXCEPT !.pc = "done"], done_events(workers[w]))

(* start_refresh.worker *)

\* the events of the two except clauses of the refresh worker
refresh_error_events(status) ==
    IF status = "cmd_error"
    THEN <<LogEv("refresh_error", "", 0), LogEv("output", "", 0),
           ErrorEv("refresh_failed", "", 0)>>
    ELSE <<LogEv("refresh_error", "", 0), ErrorEv("refresh_failed", "", 0)>>

\* Fault: the refresh worker never retries
refresh_retries_never(wk) == FALSE

\* whether the refresh worker retries local-only after a GitCommandError
refresh_retries(wk) == wk.remote_query # ""

RefreshCollect(w, env) ==
    LET wk == workers[w]
        r == collect_repo_data(repo_root, wk.remote_query, env)
        wp == [wk EXCEPT !.passes = Append(@, Pass(wk.remote_query, r))]
    IN  /\ wk.pc = "collect"
        /\ IF r.status = "data"
           THEN WorkerStep(w, [wp EXCEPT !.pc = "finish", !.ok = TRUE, !.message = "refresh_ok"],
                           <<DataEv(r.data)>>)
           ELSE IF r.status = "cmd_error" /\ refresh_retries(wk)
           THEN WorkerStep(w, [wp EXCEPT !.pc = "retry"], refresh_error_events(r.status))
           ELSE WorkerStep(w, [wp EXCEPT !.pc = "finish"], refresh_error_events(r.status))

\* Fault: the fallback pass also sets ok
refresh_fallback_shown_ok(wp) ==
    [wp EXCEPT !.pc = "finish", !.ok = TRUE, !.message = "refresh_local_shown"]

\* the locals after the local-only pass succeeded: only message is assigned
refresh_fallback_shown(wp) ==
    [wp EXCEPT !.pc = "finish", !.message = "refresh_local_shown"]

RefreshRetry(w, env) ==
    LET wk == workers[w]
        r == collect_repo_data(repo_root, "", env)
        wp == [wk EXCEPT !.passes = Append(@, Pass("", r))]
    IN  /\ wk.pc = "retry"
        /\ wk.kind = "refresh"
        /\ IF r.status = "data"
           THEN WorkerStep(w, refresh_fallback_shown(wp), <<DataEv(r.data)>>)
           ELSE WorkerStep(w, [wp EXCEPT !.pc = "finish"], <<>>)

(* run_git_sequence.worker *)

\* stream_git, per output line: on_log(line), then on_progress when PROGRESS_RE
\* matches, then on_hint when the line holds a credential prompt; the worker's
\* callbacks turn them into log, progress and log events
stream_line_events(lk) ==
    <<LogEv("line", lk, 0)>>
        \o (IF lk = "progress" THEN <<ProgressEv>> ELSE <<>>)
        \o (IF lk = "prompt" THEN <<LogEv("hint", "", 0)>> ELSE <<>>)

\* Fault: an except clause that swallows the exception without a word
seq_exception_events_none(wk) == <<>>

\* the events of the except clause of the sequence worker
seq_exception_events(wk) ==
    <<LogEv("exception", wk.title, 0), ErrorEv("exception", wk.title, 0)>>

\* the events of `if not ok:` after the loop
seq_failure_events(wk, cmd, rc) ==
    <<LogEv("rc_fail", wk.title, rc), LogEv("cmd_fail", cmd, 0),
      ErrorEv("seq_failed", wk.title, rc)>>

\* where the worker goes after the main phase and the failure report
after_main(wk) ==
    IF wk.refresh_after
    THEN [wk EXCEPT !.pc = "refresh"]
    ELSE [wk EXCEPT !.pc = "finish", !.message = IF wk.ok THEN "seq_done" ELSE "seq_failed"]

\* Fault: the loop without its break, every step run whatever the exit codes
after_exit_no_break(wk, rc) ==
    LET wr == [wk EXCEPT !.ok = @ /\ rc = 0]
    IN  IF wk.i < Len(wk.commands)
        THEN [wr EXCEPT !.i = wk.i + 1, !.pc = "spawn"]
        ELSE after_main(wr)

\* Fault: the loop stepping over the command that follows a successful one
after_exit_skips_step(wk, rc) ==
    IF rc # 0
    THEN after_main([wk EXCEPT !.ok = FALSE])
    ELSE IF wk.i + 1 < Len(wk.commands)
    THEN [wk EXCEPT !.i = wk.i + 2, !.pc = "spawn"]
    ELSE after_main(wk)

\* the loop after a step returned rc: break on a non-zero code, else next step
after_exit(wk, rc) ==
    IF rc # 0
    THEN after_main([wk EXCEPT !.ok = FALSE])
    ELSE IF wk.i < Len(wk.commands)
    THEN [wk EXCEPT !.i = wk.i + 1, !.pc = "spawn"]
    ELSE after_main(wk)

\* stream_git up to Popen: the command line is logged, the process is spawned;
\* Popen may raise (OSError), which the worker's except clause catches
SeqSpawn(w, raises) ==
    LET wk == workers[w]
        cmd == wk.commands[wk.i]
    IN  /\ wk.pc = "spawn"
        /\ IF raises \/ repo_root = NoRepo
           THEN WorkerStep(w, [wk EXCEPT !.pc = "finish", !.ok = FALSE],
                           <<LogEv("cmdline", cmd, 0)>> \o seq_exception_events(wk))
           ELSE WorkerStep(w, [wk EXCEPT !.pc = "run",
                                         !.started = Append(@, wk.i)],
                           <<LogEv("cmdline", cmd, 0)>>)

\* the process prints one line
SeqLine(w, lk) ==
    LET wk == workers[w]
    IN  /\ wk.pc = "run"
        /\ wk.lines < MaxLines
        /\ WorkerStep(w, [wk EXCEPT !.lines = @ + 1], stream_line_events(lk))

\* the output ends and proc.wait() returns rc
SeqExit(w, rc) ==
    LET wk == workers[w]
        wx == [wk EXCEPT !.exits = Append(@, rc)]
    IN  /\ wk.pc = "run"
        /\ WorkerStep(w, after_exit(wx, rc),
                      IF rc # 0 THEN seq_failure_events(wk, wk.commands[wk.i], rc) ELSE <<>>)

\* the data-collection pass after the main phase
SeqRefresh(w, env) ==
    LET wk == workers[w]
        r == collect_repo_data(repo_root, wk.remote_query, env)
        wp == [wk EXCEPT !.passes = Append(@, Pass(wk.remote_query, r))]
        msg == IF wk.ok THEN "seq_done" ELSE "seq_failed"
    IN  /\ wk.pc = "refresh"
        /\ IF r.status = "data"
           THEN WorkerStep(w, [wp EXCEPT !.pc = "finish", !.message = msg], <<DataEv(r.data)>>)
           ELSE IF r.status = "cmd_error"
           THEN WorkerStep(w, [wp EXCEPT !.pc = "retry"],
                           <<LogEv("refresh_warn", "", 0), LogEv("output", "", 0)>>)
           ELSE WorkerStep(w, [wp EXCEPT !.pc = "finish", !.ok = FALSE], seq_exception_events(wk))

\* the local-only pass after a GitCommandError of the first pass
SeqRetry(w, env) ==
    LET wk == workers[w]
        r == collect_repo_data(repo_root, "", env)
        wp == [wk EXCEPT !.passes = Append(@, Pass("", r)),
                         !.pc = "finish",
                         !.message = IF wk.ok THEN "seq_done" ELSE "seq_failed"]
    IN  /\ wk.pc = "retry"
        /\ wk.kind = "seq"
        /\ WorkerStep(w, wp, IF r.status = "data" THEN <<DataEv(r.data)>> ELSE <<>>)

-----------------------------------------------------------------------------
(* The UI thread *)

\* view: remote        - PushFrame.remote_var ("" when nothing is selected)
\*       remote_values - the values of PushFrame.remote_combo
\*       status        - LogFrame.status_var
InitView ==
    [remote |-> "", remote_values |-> {}, status |-> "ready"]

\* Fault: begin_operation that does not set _running
begin_operation_flag_not_set(title, v) ==
    /\ running' = running
    /\ view' = [v EXCEPT !.status = title]
    /\ applied' = <<>>
    /\ logged' = <<title>>

\* begin_operation(title), with v the view as the handler has left it so far
begin_operation(title, v) ==
    /\ running' = TRUE
    /\ view' = [v EXCEPT !.status = title]
    /\ applied' = <<>>
    /\ logged' = <<title>>

\* finish_operation(ok, message) on the UI state st
finish_operation(st, ok, message) ==
    [st EXCEPT !.running = FALSE, !.view.status = message]

\* PushFrame.ensure_remote_selected after set_remote_values(values)
ensure_remote_selected(v, values) ==
    IF values # {} /\ v.remote \notin values
    THEN [v EXCEPT !.remote_values = values, !.remote = FirstRemote(values)]
    ELSE [v EXCEPT !.remote_values = values]

\* apply_repo_data(data) on the view
apply_repo_data(v, data) == ensure_remote_selected(v, data.remotes)

\* the event kinds _poll has a branch for
KnownKinds == {"log", "progress", "status", "data", "done", "error"}

\* one iteration of the loop of _poll: the item e is taken from the queue and
\* dispatched on its kind, on st = [running, view, applied, log]; the error
\* branch shows a message box and the last branch is the one of unknown kinds
apply_event(st, e) ==
    LET taken == [st EXCEPT !.applied = Append(@, e)]
    IN  IF e.kind = "log" THEN [taken EXCEPT !.log = Append(@, e.tag)]
        ELSE IF e.kind = "progress" THEN [taken EXCEPT !.view.status = "progress"]
        ELSE IF e.kind = "status" THEN [taken EXCEPT !.view.status = e.tag]
        ELSE IF e.kind = "data"
        THEN [taken EXCEPT !.view = apply_repo_data(st.view, e.data),
                           !.log = Append(@, "loaded")]
        ELSE IF e.kind = "done" THEN finish_operation(taken, e.ok, e.tag)
        ELSE IF e.kind = "error" THEN taken
        ELSE [taken EXCEPT !.log = Append(@, "warn_unknown")]

\* Fault: the loop of _poll ends at the first item of an unknown kind
RECURSIVE apply_all_stops_at_unknown(_, _)
apply_all_stops_at_unknown(st, events) ==
    IF events = <<>> \/ Head(events).kind \notin KnownKinds THEN st
    ELSE apply_all_stops_at_unknown(apply_event(st, Head(events)), Tail(events))

\* the loop of _poll: get_nowait until queue.Empty
RECURSIVE apply_all(_, _)
apply_all(st, events) ==
    IF events = <<>> THEN st
    ELSE apply_all(apply_event(st, Head(events)), Tail(events))

\* _poll: every queued event is taken and applied, in queue order
poll_tick ==
    LET st == apply_all([running |-> running, view |-> view,
                         applied |-> applied, log |-> logged], q)
    IN  /\ q # <<>>
        /\ q' = <<>>
        /\ running' = st.running
        /\ view' = st.view
        /\ applied' = st.applied
        /\ logged' = st.log
        /\ call' = NoCall
        /\ UNCHANGED <<repo_root, workers>>

Poll ==
    /\ poll_tick
    /\ UNCHANGED probe

\* threading.Thread(target=worker, daemon=True).start()
StartWorker(rec) ==
    /\ FreeSlots # {}
    /\ workers' = [workers EXCEPT ![NewSlot] = rec]

(* start_refresh *)

\* the modes the callbacks and key bindings pass (F5, the two refresh buttons,
\* try_set_repo, the remote manager's change callback)
RefreshModes == {"auto", "local"}

\* Fault: the guard of start_refresh without the test of _running
start_refresh_rejects_no_running_test(root) == root = NoRepo

\* `if self._running or not self._repo_root: return`
start_refresh_rejects(root) == running \/ root = NoRepo

\* the handler asks git for the remotes itself when none is selected
refresh_asks_git(mode) == mode \in {"auto", "remote"} /\ view.remote = ""

\* git_capture raises GitCommandError in the handler: nothing catches it
refresh_raises(mode, gr) == refresh_asks_git(mode) /\ ~gr.ok

\* remote_query as the handler computes it
refresh_remote_query(mode, gr) ==
    IF mode \notin {"auto", "remote"} THEN ""
    ELSE IF view.remote # "" THEN view.remote
    ELSE IF gr.names # {} THEN FirstRemote(gr.names)
    ELSE ""

\* the handler returns after an error box: remote mode without a remote, unknown mode
refresh_refuses(mode, gr) ==
    \/ mode = "remote" /\ refresh_remote_query(mode, gr) = ""
    \/ mode \notin {"auto", "remote", "local"}

refresh_starts(root, mode, gr) ==
    ~start_refresh_rejects(root) /\ ~refresh_raises(mode, gr) /\ ~refresh_refuses(mode, gr)

\* start_refresh(mode) with self._repo_root = root; gr is what `git remote` answers
start_refresh(root, mode, gr) ==
    IF start_refresh_rejects(root) \/ refresh_raises(mode, gr)
    THEN UNCHANGED <<running, q, workers, view, applied, logged>>
    ELSE LET rq == refresh_remote_query(mode, gr)
             v == IF refresh_asks_git(mode) /\ rq # "" THEN [view EXCEPT !.remote = rq] ELSE view
         IN  IF refresh_refuses(mode, gr)
             THEN view' = v /\ UNCHANGED <<running, q, workers, applied, logged>>
             ELSE /\ begin_operation(IF mode = "local" THEN "offline_refresh" ELSE "refresh", v)
                  /\ StartWorker(RefreshWorker(rq))
                  /\ UNCHANGED q

\* the mode is the caller's; git is asked only past the guard, and only in the
\* modes that look for a remote when none is selected
StartRefresh(mode) ==
    /\ \E gr \in GitRemoteOutcomes :
          /\ (gr.ok /\ gr.names = {}) \/ (~start_refresh_rejects(repo_root) /\ refresh_asks_git(mode))
          /\ start_refresh(repo_root, mode, gr)
          /\ UNCHANGED probe
          /\ call' = Call("start_refresh", repo_root,
                          ~start_refresh_rejects(repo_root) /\ refresh_asks_git(mode),
                          refresh_raises(mode, gr) /\ ~start_refresh_rejects(repo_root),
                          refresh_starts(repo_root, mode, gr))
    /\ UNCHANGED repo_root

(* try_set_repo *)

\* what the directory is: missing, not a repository, or the repository found
RepoPaths == {"nodir", "notrepo"} \cup Roots

\* try_set_repo(path, auto_refresh=True): every caller passes auto_refresh=True.
\* A missing directory returns before find_repo_root; a directory that is not a
\* repository makes find_repo_root run `git rev-parse` and raise, which the
\* `except Exception` turns into a summary text.
\* The recent list of the configuration, which the third branch updates, is
\* the subject of RecentSpec.
try_set_repo(path) ==
    IF path \in Roots
    THEN /\ repo_root' = path
         /\ \E gr \in GitRemoteOutcomes :
               /\ (gr.ok /\ gr.names = {}) \/ (~start_refresh_rejects(path) /\ refresh_asks_git("auto"))
               /\ start_refresh(path, "auto", gr)
               /\ call' = Call("try_set_repo", path,
                               ~start_refresh_rejects(path) /\ refresh_asks_git("auto"),
                               refresh_raises("auto", gr) /\ ~start_refresh_rejects(path),
                               refresh_starts(path, "auto", gr))
    ELSE /\ repo_root' = NoRepo
         /\ call' = Call("try_set_repo", NoRepo, path = "notrepo", FALSE, FALSE)
         /\ UNCHANGED <<running, q, workers, view, applied, logged>>

TrySetRepo(path) ==
    /\ try_set_repo(path)
    /\ UNCHANGED probe

(* run_git_sequence and the handlers that call it *)

\* `if self._running or not self._repo_root: return` of run_git_sequence
run_git_sequence_rejects == running \/ repo_root = NoRepo

\* Fault: the guard of the handlers without the test of the root
handler_rejects_no_root_test == running

\* the same test, first statement of on_fetch, on_push, on_commit,
\* on_checkout_branch and on_delete_branch
handler_rejects == running \/ repo_root = NoRepo

\* run_git_sequence(title, commands, refresh_after), with v the view as the
\* calling handler has left it; remote_query is read from the view
run_git_sequence(title, commands, refresh_after, v) ==
    IF run_git_sequence_rejects
    THEN view' = v /\ UNCHANGED <<running, q, workers, applied, logged>>
    ELSE /\ begin_operation(title, v)
         /\ StartWorker(SeqWorker(title, commands, refresh_after, v.remote))
         /\ UNCHANGED q

\* a handler that returns before run_git_sequence (guard, validation, cancel);
\* git tells whether the handler had called git_capture, local_ref_exists or
\* remote_ref_exists by then
HandlerReturns(v, git) ==
    /\ view' = v
    /\ UNCHANGED probe
    /\ call' = Call("handler", repo_root, git, FALSE, FALSE)
    /\ UNCHANGED <<running, repo_root, q, workers, applied, logged>>

\* a handler that reaches run_git_sequence (refresh_after keeps its default True)
HandlerRuns(title, commands, v, git) ==
    /\ run_git_sequence(title, commands, TRUE, v)
    /\ UNCHANGED probe
    /\ call' = Call("run_git_sequence", repo_root, git, FALSE, ~run_git_sequence_rejects)
    /\ UNCHANGED repo_root

\* on_fetch
OnFetch ==
    IF handler_rejects \/ view.remote = ""
    THEN HandlerReturns(view, FALSE)
    ELSE HandlerRuns("fetch", <<"fetch">>, view, FALSE)

\* on_checkout_branch: selected - a branch other than the current one is
\* selected; then `git status` runs in the handler; confirmed - the tree is
\* clean or the dialog about the dirty tree was answered yes
OnCheckoutBranch ==
    IF handler_rejects
    THEN HandlerReturns(view, FALSE)
    ELSE \E selected, confirmed \in BOOLEAN :
            IF ~selected
            THEN HandlerReturns(view, FALSE)
            ELSE IF ~confirmed
            THEN HandlerReturns(view, TRUE)
            ELSE HandlerRuns("checkout", <<"checkout">>, view, TRUE)

\* the command list of on_commit
commit_commands(stage_all) ==
    (IF stage_all THEN <<"add">> ELSE <<>>) \o <<"commit">>

\* on_commit: entered - the commit dialog was not cancelled; then `git status`
\* or `git diff` and `git config` run in the handler; proceeds - there are
\* changes, and the identity is there or was written
OnCommit ==
    IF handler_rejects
    THEN HandlerReturns(view, FALSE)
    ELSE \E entered, proceeds, stage_all \in BOOLEAN :
            IF ~entered
            THEN HandlerReturns(view, FALSE)
            ELSE IF ~proceeds
            THEN HandlerReturns(view, TRUE)
            ELSE HandlerRuns("commit", commit_commands(stage_all), view, TRUE)

\* the remote on_delete_branch works on: the selected one, else the first value
\* of the combo box, which it then selects
delete_remote(v) ==
    IF v.remote # "" THEN v.remote
    ELSE IF v.remote_values # {} THEN FirstRemote(v.remote_values)
    ELSE ""

\* the command list of on_delete_branch
delete_branch_commands(local_exists, remote_exists) ==
    (IF remote_exists THEN <<"push_delete">> ELSE <<>>)
        \o (IF local_exists THEN <<"branch_d">> ELSE <<>>)

\* on_delete_branch: selected - a branch other than the current one is selected;
\* with a remote, local_ref_exists and remote_ref_exists run in the handler;
\* confirmed - the remote query succeeded and the danger dialog was confirmed
OnDeleteBranch ==
    IF handler_rejects
    THEN HandlerReturns(view, FALSE)
    ELSE \E selected, local_exists, remote_exists, confirmed \in BOOLEAN :
            LET v == [view EXCEPT !.remote = delete_remote(view)]
            IN  IF ~selected
                THEN HandlerReturns(view, FALSE)
                ELSE IF v.remote = ""
                THEN HandlerReturns(v, FALSE)
                ELSE IF (~local_exists /\ ~remote_exists) \/ ~confirmed
                THEN HandlerReturns(v, TRUE)
                ELSE HandlerRuns("delete_branch",
                                 delete_branch_commands(local_exists, remote_exists), v, TRUE)

\* what ensure_remote_for_push meets when no remote is selected: `git remote`
\* lists one, or origin is created, or neither (nothing listed and the GitHub
\* dialog is cancelled, or origin cannot be created)
PushRemoteOutcomes == {"listed", "created", "none"}

\* ensure_remote_for_push on the view: the selected remote is kept, else the
\* first one listed is selected, else the origin created is selected and added
\* to the values of the combo box
ensure_remote_for_push(v, found) ==
    IF v.remote # "" THEN v
    ELSE IF found = "listed" THEN [v EXCEPT !.remote = FirstRemote(Remotes)]
    ELSE IF found = "created"
    THEN [v EXCEPT !.remote = "origin", !.remote_values = @ \cup {"origin"}]
    ELSE v

\* the command list of on_push ("push" stands for the branch push with or
\* without -u, "tag" for the tag creation with or without a message)
push_commands(force, create_tag) ==
    (IF force THEN <<"fetch">> ELSE <<>>)
        \o (IF create_tag THEN <<"tag">> ELSE <<>>)
        \o <<IF force THEN "push_force_with_lease" ELSE "push">>
        \o (IF create_tag THEN <<"push_tag">> ELSE <<>>)

\* on_push: target_ok - the target branch name is valid; then the handler runs
\* `git remote` (no remote selected) or `git rev-parse` and `git status` (a
\* remote is there); proceeds - HEAD exists, the dialogs are confirmed and the
\* tag name is valid
OnPush ==
    IF handler_rejects
    THEN HandlerReturns(view, FALSE)
    ELSE \E target_ok, proceeds, force, create_tag \in BOOLEAN, found \in PushRemoteOutcomes :
            LET v == ensure_remote_for_push(view, found)
            IN  IF ~target_ok
                THEN HandlerReturns(view, FALSE)
                ELSE IF v.remote = "" \/ ~proceeds
                THEN HandlerReturns(v, TRUE)
                ELSE HandlerRuns("push", push_commands(force, create_tag), v, TRUE)

-----------------------------------------------------------------------------
(* The specification *)

\* AppController.__init__ up to its last statement, try_set_repo(initial_repo),
\* which is the action TrySetRepo
Init ==
    /\ running = FALSE
    /\ repo_root = NoRepo
    /\ q = <<>>
    /\ workers = [w \in WorkerIds |-> IdleWorker]
    /\ view = InitView
    /\ applied = <<>>
    /\ logged = <<>>
    /\ call = NoCall
    /\ probe = NoProbe

\* the steps of the worker thread in slot w
WorkerNext(w) ==
    \/ \E env \in CollectEnvs : RefreshCollect(w, env)
    \/ \E env \in CollectEnvs : RefreshRetry(w, env)
    \/ \E raises \in BOOLEAN : SeqSpawn(w, raises)
    \/ \E lk \in LineKinds : SeqLine(w, lk)
    \/ \E rc \in ExitCodes : SeqExit(w, rc)
    \/ \E env \in CollectEnvs : SeqRefresh(w, env)
    \/ \E env \in CollectEnvs : SeqRetry(w, env)
    \/ WorkerFinish(w)

Next ==
    \/ \E mode \in RefreshModes : StartRefresh(mode)
    \/ \E path \in RepoPaths : TrySetRepo(path)
    \/ OnFetch
    \/ OnCheckoutBranch
    \/ OnCommit
    \/ OnDeleteBranch
    \/ OnPush
    \/ Poll
    \/ \E w \in WorkerIds : WorkerNext(w)

Spec == Init /\ [][Next]_vars

\* The external commands terminate and the threads are scheduled: a worker that
\* can take a step eventually takes one; root.after reschedules _poll: a tick
\* with events queued eventually happens.
FairSpec == Spec /\ WF_vars(Poll) /\ \A w \in WorkerIds : WF_vars(WorkerNext(w))

-----------------------------------------------------------------------------
(* _poll on its own: one tick over any queue contents *)

MaxQueue == 3

\* the items a tick may find, one of each kind _poll knows and one it does not
PollEvents ==
    { LogEv("line", "plain", 0),
      ProgressEv,
      Event("status", "busy", "", 0, FALSE, NoData),
      DataEv(RepoData(Remotes, TRUE)),
      DoneEv(TRUE, "seq_done", "fetch"),
      ErrorEv("seq_failed", "fetch", 1),
      Event("bogus", "", "", 0, FALSE, NoData) }

RECURSIVE SeqsUpTo(_, _)
SeqsUpTo(S, n) ==
    IF n = 0 THEN {<<>>}
    ELSE LET shorter == SeqsUpTo(S, n - 1)
         IN  shorter \cup {Append(t, x) : t \in shorter, x \in S}

\* the controller with or without an operation in flight, and a queue that
\* holds up to MaxQueue items when the tick begins
PollInit ==
    /\ running \in BOOLEAN
    /\ repo_root \in Roots
    /\ q \in SeqsUpTo(PollEvents, MaxQueue)
    /\ workers = [w \in WorkerIds |-> IdleWorker]
    /\ view = InitView
    /\ applied = <<>>
    /\ logged = <<>>
    /\ call = NoCall
    /\ probe = NoProbe

PollNext == Poll

PollSpec == PollInit /\ [][PollNext]_vars

-----------------------------------------------------------------------------
(* git_utils: the parsers of `git ls-remote` output *)

\* A line of output is a sequence of symbols: a tab, a space, a hash, one of
\* the two ref prefixes, a letter of a name, or the peel marker.

MaxListing == 3

Whitespace == {"TAB", "SP"}

Hashes == {"h1", "h2"}

NameLetters == {"a", "b"}

PeelMarker == "^{}"

\* the order of the symbols as Python compares the strings they stand for
Rank ==
    [x \in Whitespace \cup Hashes \cup NameLetters
           \cup {PeelMarker, "refs/heads/", "refs/tags/"} |->
        CASE x = "TAB" -> 9
          [] x = "SP" -> 32
          [] x = PeelMarker -> 94
          [] x = "a" -> 97
          [] x = "b" -> 98
          [] x = "h1" -> 104
          [] x = "h2" -> 105
          [] x = "refs/heads/" -> 114
          [] x = "refs/tags/" -> 115]

\* str.__lt__ on two names
RECURSIVE NameLess(_, _)
NameLess(x, y) ==
    IF x = <<>> THEN y # <<>>
    ELSE IF y = <<>> THEN FALSE
    ELSE IF Head(x) = Head(y) THEN NameLess(Tail(x), Tail(y))
    ELSE Rank[Head(x)] < Rank[Head(y)]

RECURSIVE lstrip(_)
lstrip(l) == IF l # <<>> /\ Head(l) \in Whitespace THEN lstrip(Tail(l)) ELSE l

RECURSIVE rstrip(_)
rstrip(l) ==
    IF l # <<>> /\ l[Len(l)] \in Whitespace THEN rstrip(SubSeq(l, 1, Len(l) - 1)) ELSE l

\* str.strip()
strip(l) == rstrip(lstrip(l))

\* str.split("\t", 1): one part when there is no tab, else the text before
\* the first tab and the text after it
split_tab(l) ==
    LET tabs == {i \in DOMAIN l : l[i] = "TAB"}
    IN  IF tabs = {} THEN <<l>>
        ELSE LET i == CHOOSE i \in tabs : \A j \in tabs : i <= j
             IN  <<SubSeq(l, 1, i - 1), SubSeq(l, i + 1, Len(l))>>

\* str.startswith(prefix), the prefix being one symbol
startswith(ref, prefix) == ref # <<>> /\ Head(ref) = prefix

\* a line both loops skip
Skipped == [ok |-> FALSE, sha |-> <<>>, name |-> <<>>]

\* the head of both loops, from line.strip() to `if not name: continue`
parse_line(line, prefix) ==
    LET l == strip(line)
        parts == split_tab(l)
        sha == strip(parts[1])
        ref == strip(parts[2])
        name == strip(Tail(ref))
    IN  IF l = <<>> \/ Len(parts) # 2 THEN Skipped
        ELSE IF ~startswith(ref, prefix) THEN Skipped
        ELSE IF name = <<>> THEN Skipped
        ELSE [ok |-> TRUE, sha |-> sha, name |-> name]

\* list.sort() and sorted(), by insertion
RECURSIVE insert(_, _)
insert(x, s) ==
    IF s = <<>> THEN <<x>>
    ELSE IF NameLess(x, Head(s)) THEN <<x>> \o s
    ELSE <<Head(s)>> \o insert(x, Tail(s))

\* Fault: the list returned as the loop built it
sorted_not(s) == s

RECURSIVE sorted(_)
sorted(s) == IF s = <<>> THEN <<>> ELSE insert(Head(s), sorted(Tail(s)))

\* sorted(d.keys()): the keys are distinct
RECURSIVE sorted_keys(_)
sorted_keys(S) ==
    IF S = {} THEN <<>>
    ELSE LET x == CHOOSE x \in S : TRUE
         IN  insert(x, sorted_keys(S \ {x}))

\* the loop of list_remote_branches_ls_remote
RECURSIVE branches_loop(_, _)
branches_loop(branches, lines) ==
    IF lines = <<>> THEN branches
    ELSE LET f == parse_line(Head(lines), "refs/heads/")
         IN  branches_loop(IF f.ok THEN Append(branches, f.name) ELSE branches,
                           Tail(lines))

\* list_remote_branches_ls_remote on the output `out` of git ls-remote --heads
list_remote_branches_ls_remote(out) == sorted(branches_loop(<<>>, out))

\* the dict tag_to_sha is a set of [name, sha] pairs with distinct names
Keys(d) == {p.name : p \in d}

\* Fault: a lightweight line is recorded whatever was recorded before it
tags_record_last_wins(st, f) ==
    LET peeled == f.name[Len(f.name)] = PeelMarker
        name == IF peeled THEN SubSeq(f.name, 1, Len(f.name) - 1) ELSE f.name
    IN  IF name = <<>> THEN st
        ELSE [st EXCEPT !.tag_to_sha = {p \in @ : p.name # name}
                                          \cup {[name |-> name, sha |-> f.sha]}]

\* the tail of the loop of list_remote_tags_ls_remote, from `peeled = False`,
\* on st = [tag_to_sha, tag_has_peeled] and the fields f of a line
tags_record(st, f) ==
    LET peeled == f.name[Len(f.name)] = PeelMarker
        name == IF peeled THEN SubSeq(f.name, 1, Len(f.name) - 1) ELSE f.name
    IN  IF name = <<>> THEN st
        ELSE IF peeled
        THEN [tag_has_peeled |-> st.tag_has_peeled \cup {name},
              tag_to_sha |-> {p \in st.tag_to_sha : p.name # name}
                                 \cup {[name |-> name, sha |-> f.sha]}]
        ELSE IF name \in st.tag_has_peeled THEN st
        ELSE IF name \in Keys(st.tag_to_sha) THEN st
        ELSE [st EXCEPT !.tag_to_sha = @ \cup {[name |-> name, sha |-> f.sha]}]

\* the loop of list_remote_tags_ls_remote
RECURSIVE tags_loop(_, _)
tags_loop(st, lines) ==
    IF lines = <<>> THEN st
    ELSE LET f == parse_line(Head(lines), "refs/tags/")
         IN  tags_loop(IF f.ok THEN tags_record(st, f) ELSE st, Tail(lines))

\* tag_to_sha when the loop of list_remote_tags_ls_remote ends
tag_to_sha(out) ==
    tags_loop([tag_to_sha |-> {}, tag_has_peeled |-> {}], out).tag_to_sha

\* list_remote_tags_ls_remote on the output `out` of git ls-remote --tags
list_remote_tags_ls_remote(out) == sorted_keys(Keys(tag_to_sha(out)))

\* lines as git prints them
RefLine(h, prefix, x) == <<h, "TAB", prefix, x>>

PeeledLine(h, x) == <<h, "TAB", "refs/tags/", x, PeelMarker>>

\* the lines a listing is drawn from: well-formed tag, peeled-tag and branch
\* lines, and lines that are not what git prints (blank, without a tab, with
\* an empty field, with padding, with an empty name, with two markers)
Lines ==
    {RefLine(h, "refs/tags/", x) : h \in Hashes, x \in NameLetters}
        \cup {PeeledLine(h, x) : h \in Hashes, x \in NameLetters}
        \cup {RefLine(h, "refs/heads/", x) : h \in Hashes, x \in NameLetters}
        \cup { <<>>, <<"SP">>,
               <<"h1", "SP", "refs/tags/", "a">>,
               <<"h1", "SP", "refs/heads/", "a">>,
               <<"TAB", "refs/tags/", "b">>,
               <<"TAB", "refs/heads/", "b">>,
               <<"h1", "TAB">>,
               <<"h2", "TAB", "SP">>,
               <<"TAB", "h1", "TAB", "refs/tags/", "b">>,
               <<"SP", "TAB", "h1", "TAB", "refs/heads/", "b">>,
               <<"SP", "h2", "TAB", "SP", "refs/tags/", "a", "SP">>,
               <<"h1", "TAB", "refs/tags/">>,
               <<"h1", "TAB", "refs/tags/", PeelMarker>>,
               <<"h2", "TAB", "refs/tags/", "a", PeelMarker, PeelMarker>> }

\* a call about to be made on a listing of up to MaxListing lines
ParserInit ==
    /\ probe \in {[fn |-> f, listing |-> l, returned |-> FALSE, names |-> <<>>, sha |-> {}] :
                     f \in {"tags", "branches"}, l \in SeqsUpTo(Lines, MaxListing)}
    /\ running = FALSE
    /\ repo_root \in Roots
    /\ q = <<>>
    /\ workers = [w \in WorkerIds |-> IdleWorker]
    /\ view = InitView
    /\ applied = <<>>
    /\ logged = <<>>
    /\ call = NoCall

ListRemoteTags ==
    /\ probe.fn = "tags"
    /\ ~probe.returned
    /\ probe' = [probe EXCEPT !.returned = TRUE,
                              !.names = list_remote_tags_ls_remote(probe.listing),
                              !.sha = tag_to_sha(probe.listing)]
    /\ UNCHANGED <<running, repo_root, q, workers, view, applied, logged, call>>

ListRemoteBranches ==
    /\ probe.fn = "branches"
    /\ ~probe.returned
    /\ probe' = [probe EXCEPT !.returned = TRUE,
                              !.names = list_remote_branches_ls_remote(probe.listing)]
    /\ UNCHANGED <<running, repo_root, q, workers, view, applied, logged, call>>

ParserNext == ListRemoteTags \/ ListRemoteBranches

ParserSpec == ParserInit /\ [][ParserNext]_vars

-----------------------------------------------------------------------------
(* apply_repo_data: the branch and tag records *)

MaxNames == 2

\* branch names (dev, feature, main in the order of Python strings) and tag names
BranchNames == {<<"a">>, <<"a", "b">>, <<"b">>}

TagNames == {<<"a">>, <<"b">>}

\* set(list)
Range(l) == {l[i] : i \in DOMAIN l}

\* Fault: the local names first, then the names that are remote only
names_local_first(local, remote) ==
    sorted_keys(Range(local)) \o sorted_keys(Range(remote) \ Range(local))

\* sorted(set(local) | set(remote))
sorted_union(local, remote) == sorted_keys(Range(local) \cup Range(remote))

\* the list of BranchItem built from a snapshot; current is _current_branch
branch_items(local, remote, current) ==
    LET names == sorted_union(local, remote)
    IN  [i \in DOMAIN names |->
            [name |-> names[i],
             local |-> names[i] \in Range(local),
             remote |-> names[i] \in Range(remote),
             current |-> names[i] = current]]

\* the list of TagItem built from a snapshot
tag_items(local, remote) ==
    LET names == sorted_union(local, remote)
    IN  [i \in DOMAIN names |->
            [name |-> names[i],
             local |-> names[i] \in Range(local),
             remote |-> names[i] \in Range(remote)]]

\* self._current_branch = data.branch if not data.detached else ""
current_branch(data) == IF data.detached THEN <<>> ELSE data.branch

\* the snapshots apply_repo_data is given: lists of up to MaxNames names
Snapshots ==
    [branch : BranchNames, detached : BOOLEAN,
     local_branches : SeqsUpTo(BranchNames, MaxNames),
     remote_branches : SeqsUpTo(BranchNames, MaxNames),
     local_tags : SeqsUpTo(TagNames, MaxNames),
     remote_tags : SeqsUpTo(TagNames, MaxNames)]

RecordsInit ==
    /\ probe \in {[fn |-> "apply_repo_data", data |-> d, returned |-> FALSE,
                   branches |-> <<>>, tags |-> <<>>] : d \in Snapshots}
    /\ running = FALSE
    /\ repo_root \in Roots
    /\ q = <<>>
    /\ workers = [w \in WorkerIds |-> IdleWorker]
    /\ view = InitView
    /\ applied = <<>>
    /\ logged = <<>>
    /\ call = NoCall

\* apply_repo_data(data), as far as the two lists of the lists frame go
ApplyRepoData ==
    /\ probe.fn = "apply_repo_data"
    /\ ~probe.returned
    /\ probe' = [probe EXCEPT
                    !.returned = TRUE,
                    !.branches = branch_items(probe.data.local_branches,
                                              probe.data.remote_branches,
                                              current_branch(probe.data)),
                    !.tags = tag_items(probe.data.local_tags, probe.data.remote_tags)]
    /\ UNCHANGED <<running, repo_root, q, workers, view, applied, logged, call>>

RecordsNext == ApplyRepoData

RecordsSpec == RecordsInit /\ [][RecordsNext]_vars

-----------------------------------------------------------------------------
(* git_utils.git_capture *)

MaxOut == 2

\* what the process writes, piece by piece: text, the two line ends, and a byte
\* sequence that is not UTF-8
OutBytes == {"x", "LF", "CRLF", "BAD"}

\* text=True, encoding="utf-8", errors="replace": universal newlines and the
\* replacement character
decode_piece(b) ==
    IF b = "CRLF" THEN "LF" ELSE IF b = "BAD" THEN "U+FFFD" ELSE b

decode(bytes) == [i \in DOMAIN bytes |-> decode_piece(bytes[i])]

ReturnCodes == {0, 1, 128, -9}

CaptureArgs == {<<"status", "--porcelain=v1">>, <<"remote">>}

\* how a run of git ends: it cannot be spawned, or it exits with a code after
\* writing to its two streams
CaptureRuns ==
    [spawned : {FALSE}, stdout : {<<>>}, stderr : {<<>>}, returncode : {0}]
        \cup [spawned : {TRUE}, stdout : SeqsUpTo(OutBytes, MaxOut),
              stderr : SeqsUpTo(OutBytes, 1), returncode : ReturnCodes]

\* Fault: the exit code is not looked at
git_capture_unchecked(args, run) ==
    IF ~run.spawned THEN [kind |-> "os_error"]
    ELSE [kind |-> "return", out |-> decode(run.stdout) \o decode(run.stderr)]

\* git_capture(repo_root, args) when subprocess.run ends as run says
git_capture(args, run) ==
    LET out == decode(run.stdout) \o decode(run.stderr)
    IN  IF ~run.spawned THEN [kind |-> "os_error"]
        ELSE IF run.returncode # 0
        THEN [kind |-> "GitCommandError", cmd |-> <<"git", "--no-pager">> \o args,
              returncode |-> run.returncode, output |-> out]
        ELSE [kind |-> "return", out |-> out]

CaptureInit ==
    /\ probe \in {[fn |-> "git_capture", args |-> a, run |-> r, returned |-> FALSE,
                   result |-> [kind |-> "none"]] : a \in CaptureArgs, r \in CaptureRuns}
    /\ running = FALSE
    /\ repo_root \in Roots
    /\ q = <<>>
    /\ workers = [w \in WorkerIds |-> IdleWorker]
    /\ view = InitView
    /\ applied = <<>>
    /\ logged = <<>>
    /\ call = NoCall

GitCapture ==
    /\ probe.fn = "git_capture"
    /\ ~probe.returned
    /\ probe' = [probe EXCEPT !.returned = TRUE,
                              !.result = git_capture(probe.args, probe.run)]
    /\ UNCHANGED <<running, repo_root, q, workers, view, applied, logged, call>>

CaptureNext == GitCapture

CaptureSpec == CaptureInit /\ [][CaptureNext]_vars

-----------------------------------------------------------------------------
(* git_stream.stream_git, called as the sequence worker calls it *)

\* A line of output is a sequence of pieces: plain text "x", a stage label, a
\* colon, a space, a number, a percent sign, the opening of a credential
\* prompt; raw lines end with "LF".

MaxStream == 2

\* the stage alternatives of PROGRESS_RE
StageLabels ==
    {"Counting objects", "Compressing objects", "Writing objects",
     "Receiving objects", "Resolving deltas"}

Digits == {"5", "100"}

\* int(m.group("pct"))
ToInt == [d \in Digits |-> IF d = "5" THEN 5 ELSE 100]

\* the two substrings looked for in a line
PromptOpenings == {"Username for '", "Password for '"}

\* the first position from i on that does not hold a space
RECURSIVE skip_spaces(_, _)
skip_spaces(line, i) ==
    IF i <= Len(line) /\ line[i] = "SP" THEN skip_spaces(line, i + 1) ELSE i

\* PROGRESS_RE matches at position i: stage, colon, \s+, \d+, %
match_at(line, i) ==
    LET j == skip_spaces(line, i + 2)
    IN  /\ line[i] \in StageLabels
        /\ i + 1 <= Len(line)
        /\ line[i + 1] = ":"
        /\ j > i + 2
        /\ j + 1 <= Len(line)
        /\ line[j] \in Digits
        /\ line[j + 1] = "%"

NoMatch == [found |-> FALSE, stage |-> "", pct |-> 0]

\* PROGRESS_RE.search(line): the leftmost match
RECURSIVE search_from(_, _)
search_from(line, i) ==
    IF i > Len(line) THEN NoMatch
    ELSE IF match_at(line, i)
    THEN [found |-> TRUE, stage |-> line[i],
          pct |-> ToInt[line[skip_spaces(line, i + 2)]]]
    ELSE search_from(line, i + 1)

\* raw_line.rstrip("\n")
RECURSIVE rstrip_newline(_)
rstrip_newline(raw) ==
    IF raw # <<>> /\ raw[Len(raw)] = "LF"
    THEN rstrip_newline(SubSeq(raw, 1, Len(raw) - 1))
    ELSE raw

OnLog(line) == [cb |-> "on_log", line |-> line, stage |-> "", pct |-> 0]

OnProgress(pct, stage) == [cb |-> "on_progress", line |-> <<>>, stage |-> stage, pct |-> pct]

OnHint == [cb |-> "on_hint", line |-> <<>>, stage |-> "", pct |-> 0]

\* Fault: the hint comes before the line
line_callbacks_hint_first(raw) ==
    LET line == rstrip_newline(raw)
        m == search_from(line, 1)
    IN  (IF \E i \in DOMAIN line : line[i] \in PromptOpenings THEN <<OnHint>> ELSE <<>>)
            \o <<OnLog(line)>>
            \o (IF m.found THEN <<OnProgress(m.pct, m.stage)>> ELSE <<>>)

\* Fault: the progress callback for every line that names a stage
line_callbacks_any_stage(raw) ==
    LET line == rstrip_newline(raw)
        stages == {i \in DOMAIN line : line[i] \in StageLabels}
    IN  <<OnLog(line)>>
            \o (IF stages # {}
                THEN <<OnProgress(0, line[CHOOSE i \in stages : TRUE])>> ELSE <<>>)
            \o (IF \E i \in DOMAIN line : line[i] \in PromptOpenings THEN <<OnHint>> ELSE <<>>)

\* the body of the loop of stream_git for one raw line, all three callbacks
\* being given: the callbacks it invokes, in order
line_callbacks(raw) ==
    LET line == rstrip_newline(raw)
        m == search_from(line, 1)
    IN  <<OnLog(line)>>
            \o (IF m.found THEN <<OnProgress(m.pct, m.stage)>> ELSE <<>>)
            \o (IF \E i \in DOMAIN line : line[i] \in PromptOpenings THEN <<OnHint>> ELSE <<>>)

\* the callbacks run_git_sequence passes: each puts one event on the queue
callback_event(c) ==
    IF c.cb = "on_log" THEN LogEv("line", c.line, 0)
    ELSE IF c.cb = "on_progress" THEN Event("progress", c.stage, "", c.pct, FALSE, NoData)
    ELSE LogEv("hint", "", 0)

callback_events(cs) == [i \in DOMAIN cs |-> callback_event(cs[i])]

\* the environment variables stream_git cares for, as the application inherited
\* them: not set, or set to something else
InheritedEnvs ==
    [GIT_TERMINAL_PROMPT : {"unset", "1"}, GIT_PAGER : {"unset", "less"}]

\* env = os.environ.copy(); env.setdefault(...) twice
child_env(inherited) ==
    [GIT_TERMINAL_PROMPT |-> IF inherited.GIT_TERMINAL_PROMPT = "unset"
                             THEN "0" ELSE inherited.GIT_TERMINAL_PROMPT,
     GIT_PAGER |-> IF inherited.GIT_PAGER = "unset"
                   THEN "cat" ELSE inherited.GIT_PAGER]

\* the content of the lines git may print
StreamLines ==
    { <<>>,
      <<"x">>,
      <<"Receiving objects", ":", "SP", "5", "%">>,
      <<"Counting objects", ":", "SP", "100", "%">>,
      <<"x", "Resolving deltas", ":", "SP", "SP", "100", "%", "x">>,
      <<"Compressing objects", ":", "SP", "5", "%", "Writing objects", ":", "SP", "100", "%">>,
      <<"Counting objects", ":", "5", "%">>,
      <<"Writing objects", ":", "SP", "5">>,
      <<"Unpacking objects", ":", "SP", "100", "%">>,
      <<"Username for '", "x">>,
      <<"x", "Password for '", "x">>,
      <<"Username for '", "Password for '">>,
      <<"username for '", "x">>,
      <<"Password for '", "Receiving objects", ":", "SP", "100", "%">> }

\* the raw lines, as the text stream hands them out
RawLines == {l \o <<"LF">> : l \in StreamLines}

\* stream_git is about to be called: script is what the process will print,
\* rc the code it will exit with
StreamInit ==
    /\ probe \in {[fn |-> "stream_git", script |-> sc, rc |-> rc, inherited |-> e,
                   env |-> [GIT_TERMINAL_PROMPT |-> "none", GIT_PAGER |-> "none"],
                   pc |-> "call", written |-> 0, read |-> 0, exited |-> FALSE,
                   calls |-> <<>>, result |-> -1, returned |-> FALSE] :
                     sc \in SeqsUpTo(RawLines, MaxStream), rc \in ExitCodes,
                     e \in InheritedEnvs}
    /\ running = TRUE
    /\ repo_root \in Roots
    /\ q = <<>>
    /\ workers = [w \in WorkerIds |-> IdleWorker]
    /\ view = InitView
    /\ applied = <<>>
    /\ logged = <<>>
    /\ call = NoCall

\* a step of stream_git: the probe becomes p, the callbacks cs are invoked
StreamStep(p, cs) ==
    /\ probe' = [p EXCEPT !.calls = @ \o cs]
    /\ q' = emit(q, callback_events(cs))
    /\ UNCHANGED <<running, repo_root, workers, view, applied, logged, call>>

\* a step of the git process
ProcStep(p) ==
    /\ probe' = p
    /\ UNCHANGED <<running, repo_root, q, workers, view, applied, logged, call>>

\* lines 32-48: the environment, on_log of the command line, Popen
StreamStart(raises) ==
    /\ probe.fn = "stream_git"
    /\ probe.pc = "call"
    /\ StreamStep([probe EXCEPT !.env = child_env(probe.inherited),
                                !.pc = IF raises THEN "raised" ELSE "loop"],
                  <<OnLog(<<"$", "git", "--no-pager">>)>>)

\* the process prints its next line
ProcWrite ==
    /\ probe.fn = "stream_git"
    /\ probe.pc = "loop"
    /\ ~probe.exited
    /\ probe.written < Len(probe.script)
    /\ ProcStep([probe EXCEPT !.written = @ + 1])

\* the process ends, which closes its end of the pipe
ProcExit ==
    /\ probe.fn = "stream_git"
    /\ probe.pc = "loop"
    /\ ~probe.exited
    /\ probe.written = Len(probe.script)
    /\ ProcStep([probe EXCEPT !.exited = TRUE])

\* Fault: the output is read once the process is over
can_read_at_exit(p) == p.read < p.written /\ p.exited

\* `for raw_line in proc.stdout` hands out a line as soon as the pipe holds one
can_read(p) == p.read < p.written

\* one turn of the loop
StreamRead ==
    /\ probe.fn = "stream_git"
    /\ probe.pc = "loop"
    /\ can_read(probe)
    /\ StreamStep([probe EXCEPT !.read = @ + 1],
                  line_callbacks(probe.script[probe.read + 1]))

\* end of file ends the loop; proc.wait() returns the code
StreamReturn ==
    /\ probe.fn = "stream_git"
    /\ probe.pc = "loop"
    /\ probe.read = probe.written
    /\ probe.exited
    /\ StreamStep([probe EXCEPT !.pc = "returned", !.returned = TRUE,
                                !.result = probe.rc], <<>>)

\* _poll runs on the UI thread meanwhile
StreamPoll ==
    /\ probe.fn = "stream_git"
    /\ Poll

StreamNext ==
    \/ \E raises \in BOOLEAN : StreamStart(raises)
    \/ ProcWrite
    \/ ProcExit
    \/ StreamRead
    \/ StreamReturn
    \/ StreamPoll

StreamSpec == StreamInit /\ [][StreamNext]_vars

-----------------------------------------------------------------------------
(* config.AppConfig: the recent list, and the handlers of its menu *)

\* number of operations on the list a behaviour of RecentSpec performs
MaxOps == 3

\* `self.recent_repos[:10]`
MaxRecent == 10

\* A path is the sequence of its components; an absolute path starts with "/".
\* "" is the empty component of a doubled or trailing slash.
DirNames == <<"d1", "d2", "d3", "d4", "d5", "d6", "d7", "d8", "d9", "d10", "d11">>

Dir(i) == <<"/", DirNames[i]>>

\* os.getcwd()
Cwd == <<"/", "home">>

isabs(p) == p # <<>> /\ Head(p) = "/"

\* os.path.normpath on the components after the root: empty components and "."
\* are dropped, ".." takes the last component kept (none at the root)
RECURSIVE normpath(_, _)
normpath(p, acc) ==
    IF p = <<>> THEN acc
    ELSE IF Head(p) \in {"", "."} THEN normpath(Tail(p), acc)
    ELSE IF Head(p) = ".."
         THEN normpath(Tail(p), IF acc = <<>> THEN acc ELSE SubSeq(acc, 1, Len(acc) - 1))
         ELSE normpath(Tail(p), Append(acc, Head(p)))

\* os.path.abspath: normpath(join(os.getcwd(), path))
abspath(p) ==
    LET joined == IF isabs(p) THEN p ELSE Cwd \o p
    IN  <<"/">> \o normpath(Tail(joined), <<>>)

\* the paths handed to add_recent_repo: eleven directories by their absolute
\* names, and relative, unnormalised and empty spellings
InputPaths ==
    {Dir(i) : i \in DOMAIN DirNames}
    \cup {<<"..", "d1">>, <<"/", "d2", "">>, <<"/", "home", "..", "d3">>, <<"d4">>, <<>>}

AbsDirs == {abspath(p) : p \in InputPaths}

\* Fault: add_recent_repo without the removal of the path from the list
add_recent_repo_no_removal(config, repo_path) ==
    LET p == abspath(repo_path)
        ins == <<p>> \o config.recent_repos
    IN  [recent_repos |-> SubSeq(ins, 1, IF Len(ins) < MaxRecent THEN Len(ins) ELSE MaxRecent),
         last_repo |-> p]

\* AppConfig.add_recent_repo
add_recent_repo(config, repo_path) ==
    LET p == abspath(repo_path)
        kept == SelectSeq(config.recent_repos, LAMBDA r : r # p)
        ins == <<p>> \o kept
    IN  [recent_repos |-> SubSeq(ins, 1, IF Len(ins) < MaxRecent THEN Len(ins) ELSE MaxRecent),
         last_repo |-> p]

\* `[r for r in self._config.recent_repos if r != repo_path]`
without_repo(config, repo_path) ==
    [config EXCEPT !.recent_repos = SelectSeq(@, LAMBDA r : r # repo_path)]

\* the configuration after add_recent_repo(Dir(1)), ..., add_recent_repo(Dir(k))
\* on the empty list
Filled(k) ==
    [recent_repos |-> [i \in 1..k |-> Dir(k + 1 - i)],
     last_repo |-> IF k = 0 THEN <<>> ELSE Dir(k)]

\* The probe holds the configuration and, as history, the time of the last
\* addition of every path (0: never), the clock, the number of operations and
\* the last operation.
RecentInit ==
    /\ probe \in {[fn |-> "recent", config |-> Filled(k),
                   stamp |-> [d \in AbsDirs |->
                                IF \E i \in 1..k : d = Dir(i)
                                THEN CHOOSE i \in 1..k : d = Dir(i) ELSE 0],
                   clock |-> k, ops |-> 0,
                   op |-> [name |-> "none", arg |-> <<>>, added |-> FALSE]] :
                     k \in 0..MaxRecent}
    /\ running = FALSE
    /\ repo_root = NoRepo
    /\ q = <<>>
    /\ workers = [w \in WorkerIds |-> IdleWorker]
    /\ view = InitView
    /\ applied = <<>>
    /\ logged = <<>>
    /\ call = NoCall

\* the probe after an operation that leaves config c; added: it went through
\* add_recent_repo(arg)
recent_probe(c, name, arg, added) ==
    [probe EXCEPT !.config = c,
                  !.stamp = IF added THEN [@ EXCEPT ![abspath(arg)] = probe.clock + 1] ELSE @,
                  !.clock = IF added THEN @ + 1 ELSE @,
                  !.ops = @ + 1,
                  !.op = [name |-> name, arg |-> arg, added |-> added]]

\* add_recent_repo(repo_path) on its own
AddRecentRepo(repo_path) ==
    /\ probe.fn = "recent"
    /\ probe.ops < MaxOps
    /\ probe' = recent_probe(add_recent_repo(probe.config, repo_path), "add", repo_path, TRUE)
    /\ UNCHANGED <<running, repo_root, q, workers, view, applied, logged, call>>

\* what open_recent_repo finds on disk
DiskStates == {"nodir", "notrepo"} \cup Roots

\* open_recent_repo(repo_path) for an entry of the menu. A missing directory is
\* taken off the list; otherwise try_set_repo runs, and adds the root it finds
\* (the entry itself: the entries are roots) to the list.
OpenRecentRepo(repo_path, disk) ==
    /\ probe.fn = "recent"
    /\ probe.ops < MaxOps
    /\ repo_path \in Range(probe.config.recent_repos)
    /\ IF disk = "nodir"
       THEN /\ probe' = recent_probe(without_repo(probe.config, repo_path), "open", repo_path, FALSE)
            /\ UNCHANGED <<running, repo_root, q, workers, view, applied, logged, call>>
       ELSE /\ try_set_repo(disk)
            /\ probe' = IF disk \in Roots
                        THEN recent_probe(add_recent_repo(probe.config, repo_path),
                                          "open", repo_path, TRUE)
                        ELSE recent_probe(probe.config, "open", repo_path, FALSE)

\* clear_recent_repos
ClearRecentRepos ==
    /\ probe.fn = "recent"
    /\ probe.ops < MaxOps
    /\ probe' = recent_probe([probe.config EXCEPT !.recent_repos = <<>>], "clear", <<>>, FALSE)
    /\ UNCHANGED <<running, repo_root, q, workers, view, applied, logged, call>>

RecentNext ==
    \/ \E p \in InputPaths : AddRecentRepo(p)
    \/ \E p \in AbsDirs, disk \in DiskStates : OpenRecentRepo(p, disk)
    \/ ClearRecentRepos

RecentSpec == RecentInit /\ [][RecentNext]_vars

-----------------------------------------------------------------------------
(* The handlers that ask the user: on_commit, on_push, on_init_repo *)

\* One step of a handler on the UI thread:
\*   "cancel" - the dialog `what` was closed without a result
\*   "ok"     - the dialog `what` returned a result
\*   "git"    - the handler ran the git command `what` (git_capture)
\*   "error"  - messagebox.showerror
\*   "info"   - messagebox.showinfo or showwarning
\*   "run"    - run_git_sequence was called
\*   "open"   - try_set_repo was called
Step(kind, what) == [kind |-> kind, what |-> what]

\* what the user and git answer to on_commit
CommitInputs ==
    [commit : {"cancel", "all", "staged"}, changes : BOOLEAN, identity : BOOLEAN,
     ident : {"cancel", "local", "global"}, global_ok : BOOLEAN, write_ok : BOOLEAN,
     confirm : BOOLEAN]

\* on_commit from the final danger confirmation on
commit_confirm_steps(i) ==
    IF i.confirm THEN <<Step("ok", "danger"), Step("run", "commit")>>
    ELSE <<Step("cancel", "danger")>>

\* on_commit from the identity dialog on (user.name or user.email is missing)
commit_identity_steps(i) ==
    IF i.ident = "cancel"
    THEN <<Step("cancel", "identity"), Step("info", "no_identity")>>
    ELSE IF i.ident = "global" /\ ~i.global_ok
    THEN <<Step("ok", "identity"), Step("cancel", "danger")>>
    ELSE <<Step("ok", "identity")>>
            \o (IF i.ident = "global" THEN <<Step("ok", "danger")>> ELSE <<>>)
            \o <<Step("git", "config_set")>>
            \o (IF i.write_ok THEN commit_confirm_steps(i)
                ELSE <<Step("error", "identity_write")>>)

\* on_commit past its guard
on_commit_steps(i) ==
    IF i.commit = "cancel" THEN <<Step("cancel", "commit")>>
    ELSE <<Step("ok", "commit"), Step("git", IF i.commit = "all" THEN "status" ELSE "diff")>>
            \o (IF ~i.changes THEN <<Step("info", "no_changes")>>
                ELSE <<Step("git", "config_get")>>
                        \o (IF i.identity THEN commit_confirm_steps(i)
                            ELSE commit_identity_steps(i)))

\* what ensure_remote_for_push meets when no remote is selected:
\*   listed - `git remote` lists a remote
\*   github - the GitHub configuration: "configured", or the dialog is
\*            "cancel"led, or a name is "entered"
\*   valid  - the name has the form owner/repo
\*   add_ok - `git remote add origin` exits zero
RemoteInputs ==
    [listed : BOOLEAN, github : {"configured", "cancel", "entered"}, valid : BOOLEAN,
     add_ok : BOOLEAN]

\* ensure_remote_for_push with no remote selected
ensure_remote_steps(e) ==
    <<Step("git", "remote")>>
        \o (IF e.listed THEN <<>>
            ELSE IF e.github = "cancel" THEN <<Step("cancel", "github")>>
            ELSE (IF e.github = "entered" THEN <<Step("ok", "github")>> ELSE <<>>)
                    \o (IF ~e.valid THEN <<Step("error", "github_format")>>
                        ELSE <<Step("git", "remote_add")>>
                                \o (IF e.add_ok THEN <<>> ELSE <<Step("error", "origin")>>)))

\* the outcome of ensure_remote_for_push with no remote selected
ensure_remote_found(e) ==
    IF e.listed THEN "listed"
    ELSE IF e.github # "cancel" /\ e.valid /\ e.add_ok THEN "created"
    ELSE "none"

\* what the user and git answer to on_push past ensure_remote_for_push
PushInputs ==
    [target_ok : BOOLEAN, head_ok : BOOLEAN, dirty : {"clean", "yes", "no"},
     force : {"off", "confirmed", "cancel"}, tag : {"off", "ok", "bad"}]

\* on_push from `git rev-parse --verify HEAD` on
push_tail_steps(i) ==
    <<Step("git", "rev_parse")>>
        \o (IF ~i.head_ok THEN <<Step("error", "no_head")>>
            ELSE <<Step("git", "status")>>
                    \o (IF i.dirty = "no" THEN <<Step("cancel", "proceed_question")>>
                        ELSE IF i.force = "cancel" THEN <<Step("cancel", "danger")>>
                        ELSE (IF i.force = "confirmed" THEN <<Step("ok", "danger")>> ELSE <<>>)
                                \o (IF i.tag = "bad" THEN <<Step("error", "tag_name")>>
                                    ELSE <<Step("run", "push")>>)))

\* on_push past its guard, with v the view it meets
on_push_steps(v, i, e) ==
    IF ~i.target_ok THEN <<Step("error", "target")>>
    ELSE (IF v.remote # "" THEN <<>> ELSE ensure_remote_steps(e))
            \o (IF v.remote = "" /\ ensure_remote_found(e) = "none"
                THEN <<Step("error", "no_remote")>>
                ELSE push_tail_steps(i))

\* what the user, the disk and git answer to on_init_repo
InitRepoInputs ==
    [dir_ok : BOOLEAN, github : {"cancel", "entered"}, valid : BOOLEAN, confirm : BOOLEAN,
     init_ok : BOOLEAN, origin_ok : BOOLEAN]

\* on_init_repo from the configuration of origin on
init_origin_steps(i) ==
    IF i.github = "cancel" THEN <<Step("open", "try_set_repo")>>
    ELSE IF ~i.valid THEN <<Step("error", "github_format")>>
    ELSE <<Step("git", "remote"), Step("git", "remote_set")>>
            \o (IF i.origin_ok THEN <<Step("open", "try_set_repo")>>
                ELSE <<Step("error", "origin")>>)

\* on_init_repo past its guard
on_init_repo_steps(i) ==
    IF ~i.dir_ok THEN <<Step("error", "no_dir")>>
    ELSE <<Step(IF i.github = "cancel" THEN "cancel" ELSE "ok", "github")>>
            \o (IF ~i.confirm THEN <<Step("cancel", "danger")>>
                ELSE <<Step("ok", "danger"), Step("git", "init")>>
                        \o (IF i.init_ok THEN init_origin_steps(i)
                            ELSE <<Step("error", "init")>>))

\* the last step of a handler
LastStep(steps) == IF steps = <<>> THEN Step("none", "") ELSE steps[Len(steps)]

\* The probe holds the handler called last and the steps it took.
DialogProbe(handler, steps) == [fn |-> "dialogs", handler |-> handler, steps |-> steps]

\* the controller with no operation running, with and without a repository
DialogInit ==
    /\ probe = DialogProbe("none", <<>>)
    /\ running = FALSE
    /\ repo_root \in Roots \cup {NoRepo}
    /\ q = <<>>
    /\ workers = [w \in WorkerIds |-> IdleWorker]
    /\ view = InitView
    /\ applied = <<>>
    /\ logged = <<>>
    /\ call = NoCall

\* a handler of run_git_sequence that took the given steps and left view v
DialogHandler(handler, steps, title, commands, v) ==
    /\ probe.fn = "dialogs"
    /\ probe' = DialogProbe(handler, steps)
    /\ UNCHANGED repo_root
    /\ IF LastStep(steps).kind = "run"
       THEN /\ run_git_sequence(title, commands, TRUE, v)
            /\ call' = Call("run_git_sequence", repo_root, TRUE, FALSE, ~run_git_sequence_rejects)
       ELSE /\ view' = v
            /\ call' = Call("handler", repo_root, \E k \in DOMAIN steps : steps[k].kind = "git",
                            FALSE, FALSE)
            /\ UNCHANGED <<running, q, workers, applied, logged>>

\* on_commit, dialog by dialog
OnCommitDialogs ==
    IF handler_rejects
    THEN DialogHandler("on_commit", <<>>, "commit", <<>>, view)
    ELSE \E i \in CommitInputs :
            DialogHandler("on_commit", on_commit_steps(i), "commit",
                          commit_commands(i.commit = "all"), view)

\* on_push, dialog by dialog
OnPushDialogs ==
    IF handler_rejects
    THEN DialogHandler("on_push", <<>>, "push", <<>>, view)
    ELSE \E i \in PushInputs, e \in RemoteInputs :
            DialogHandler("on_push", on_push_steps(view, i, e), "push",
                          push_commands(i.force = "confirmed", i.tag = "ok"),
                          IF i.target_ok THEN ensure_remote_for_push(view, ensure_remote_found(e))
                          ELSE view)

\* on_init_repo: its guard is `if self._running: return`; after `git init` it
\* ends in try_set_repo, which finds the repository or not
OnInitRepoDialogs ==
    /\ probe.fn = "dialogs"
    /\ IF running
       THEN /\ probe' = DialogProbe("on_init_repo", <<>>)
            /\ call' = NoCall
            /\ UNCHANGED <<running, repo_root, q, workers, view, applied, logged>>
       ELSE \E i \in InitRepoInputs, disk \in {"notrepo"} \cup Roots :
               /\ probe' = DialogProbe("on_init_repo", on_init_repo_steps(i))
               /\ IF LastStep(on_init_repo_steps(i)).kind = "open"
                  THEN try_set_repo(disk)
                  ELSE /\ call' = NoCall
                       /\ UNCHANGED <<running, repo_root, q, workers, view, applied, logged>>

DialogNext ==
    \/ OnCommitDialogs
    \/ OnPushDialogs
    \/ OnInitRepoDialogs

DialogSpec == DialogInit /\ [][DialogNext]_vars

-----------------------------------------------------------------------------
(* collect_repo_data, query by query, inside the refresh worker *)

\* the git queries of one pass, in the order of the code
Queries ==
    <<"head", "branch", "dirty", "remotes", "urls", "local_branches", "local_tags",
      "remote_branches", "remote_tags">>

\* the worker past the passes: at its finally clause, and ended
PcFinish == Len(Queries) + 1

PcDone == Len(Queries) + 2

\* what a query can end in: output (one of two), non-zero exit, OSError
QueryAnswers == {"x", "y", "fail", "raise"}

\* the local variables of a pass that has not run a query yet; every value
\* carries the number of the pass that computed it (0: not computed)
NoLocals == [f \in {Queries[k] : k \in DOMAIN Queries} |-> [v |-> "unset", pass |-> 0]]

\* RepoData(...) as line 63 builds it from the local variables
Snapshot(names, rq, locals) ==
    [remotes |-> names, remote_queried |-> rq # "", fields |-> locals]

\* whether query k is run at all: the URL of a remote only when `git remote`
\* names one, the two ls-remote queries only with a remote_query
query_runs(k, names, rq) ==
    IF Queries[k] = "urls" THEN names # {}
    ELSE IF Queries[k] \in {"remote_branches", "remote_tags"} THEN rq # ""
    ELSE TRUE

\* the two queries whose GitCommandError is caught and replaced by a default
query_caught(k) == Queries[k] \in {"head", "branch"}

\* the outcome of statement k of a pass: "next" (the local variable is set),
\* "cmd_error" (GitCommandError leaves the function), "exception"
query_step(k, ans, names, rq) ==
    IF ~query_runs(k, names, rq) THEN [status |-> "next", v |-> "empty"]
    ELSE IF ans = "raise" THEN [status |-> "exception", v |-> "unset"]
    ELSE IF ans = "fail"
    THEN IF query_caught(k) THEN [status |-> "next", v |-> "default"]
         ELSE [status |-> "cmd_error", v |-> "unset"]
    ELSE [status |-> "next", v |-> ans]

\* what the summary, the remote combo box and the two lists show
NoShown ==
    [summary |-> <<>>, remotes |-> {}, branches |-> <<>>, tags |-> <<>>]

\* Fault: apply_repo_data that leaves the tag list as it was
show_repo_data_keeps_tags(shown, d) ==
    [summary |-> <<d.fields["branch"], d.fields["head"], d.fields["dirty"], d.fields["urls"]>>,
     remotes |-> d.remotes,
     branches |-> <<d.fields["local_branches"], d.fields["remote_branches"]>>,
     tags |-> shown.tags]

\* apply_repo_data on the summary, the remote values and the two lists
show_repo_data(shown, d) ==
    [summary |-> <<d.fields["branch"], d.fields["head"], d.fields["dirty"], d.fields["urls"]>>,
     remotes |-> d.remotes,
     branches |-> <<d.fields["local_branches"], d.fields["remote_branches"]>>,
     tags |-> <<d.fields["local_tags"], d.fields["remote_tags"]>>]

\* the data events of one tick of _poll, applied in order
RECURSIVE show_all(_, _)
show_all(shown, events) ==
    IF events = <<>> THEN shown
    ELSE show_all(IF Head(events).kind = "data" THEN show_repo_data(shown, Head(events).data)
                  ELSE shown,
                  Tail(events))

\* the snapshot of an earlier operation (pass 0), shown when the refresh starts
EarlierSnapshot ==
    Snapshot({"origin"}, "origin",
             [f \in DOMAIN NoLocals |-> [v |-> "x", pass |-> 0]])

\* The probe holds the refresh worker: the remote_query of the operation and
\* of the running pass, the pass number, the statement it is at, the remote
\* names and the local variables of the pass, ok and message, and what the
\* view shows.
CollectInit ==
    /\ probe \in {[fn |-> "collect", remote_query |-> rq, rq |-> rq, pass |-> 1, pc |-> 1,
                   names |-> {}, locals |-> NoLocals, ok |-> FALSE,
                   message |-> "refresh_failed", shown |-> sh] :
                     rq \in {"origin", ""},
                     sh \in {NoShown, show_repo_data(NoShown, EarlierSnapshot)}}
    /\ running = TRUE
    /\ repo_root \in Roots
    /\ q = <<>>
    /\ workers = [w \in WorkerIds |-> IdleWorker]
    /\ view = [InitView EXCEPT !.status = "refresh"]
    /\ applied = <<>>
    /\ logged = <<"refresh">>
    /\ call = NoCall

\* a step of the worker: the probe becomes p and events are put on the queue
CollectStep(p, events) ==
    /\ probe' = p
    /\ q' = emit(q, events)
    /\ UNCHANGED <<running, repo_root, workers, view, applied, logged, call>>

\* the worker after a pass has left collect_repo_data with status st
after_pass(p, st) ==
    IF p.pass = 1 /\ st = "cmd_error" /\ p.remote_query # ""
    THEN [p EXCEPT !.pass = 2, !.rq = "", !.pc = 1, !.names = {}, !.locals = NoLocals]
    ELSE [p EXCEPT !.pc = PcFinish, !.names = {}, !.locals = NoLocals]

\* statement k of the running pass with answer ans (names: what `git remote`
\* lists); after the last statement the function returns and the worker emits
\* the data event
CollectQuery(ans, listed) ==
    /\ probe.fn = "collect"
    /\ probe.pc \in DOMAIN Queries
    /\ LET k == probe.pc
           r == query_step(k, ans, probe.names, probe.rq)
           names == IF Queries[k] = "remotes" /\ r.status = "next" THEN listed ELSE probe.names
           locals == [probe.locals EXCEPT ![Queries[k]] = [v |-> r.v, pass |-> probe.pass]]
       IN  IF r.status = "next" /\ k < Len(Queries)
           THEN CollectStep([probe EXCEPT !.pc = k + 1, !.names = names, !.locals = locals], <<>>)
           ELSE IF r.status = "next"
           THEN CollectStep([probe EXCEPT !.pc = PcFinish, !.names = {}, !.locals = NoLocals,
                                          !.ok = (probe.pass = 1),
                                          !.message = IF probe.pass = 1 THEN "refresh_ok"
                                                      ELSE "refresh_local_shown"],
                            <<DataEv(Snapshot(names, probe.rq, locals))>>)
           ELSE CollectStep(after_pass(probe, r.status),
                            IF probe.pass = 1 THEN refresh_error_events(r.status) ELSE <<>>)

\* the finally clause
CollectFinish ==
    /\ probe.fn = "collect"
    /\ probe.pc = PcFinish
    /\ CollectStep([probe EXCEPT !.pc = PcDone],
                   <<DoneEv(probe.ok, probe.message, "refresh")>>)

\* _poll, with what apply_repo_data shows
CollectPoll ==
    /\ probe.fn = "collect"
    /\ poll_tick
    /\ probe' = [probe EXCEPT !.shown = show_all(probe.shown, q)]

CollectNext ==
    \/ \E ans \in QueryAnswers, listed \in SUBSET Remotes : CollectQuery(ans, listed)
    \/ CollectFinish
    \/ CollectPoll

CollectSpec == CollectInit /\ [][CollectNext]_vars

-----------------------------------------------------------------------------
(* git_utils.mask_remote_url *)

\* A URL is the sequence of its characters: "s" stands for the scheme, "u" and
\* "v" for the letters of a user name, "p" and "w" for those of a password,
\* "h" for the host and "r" for the path.

\* s.find(pat) from position i on: the first position of pat in s, 0 if none
RECURSIVE find_from(_, _, _)
find_from(s, pat, i) ==
    IF i + Len(pat) - 1 > Len(s) THEN 0
    ELSE IF SubSeq(s, i, i + Len(pat) - 1) = pat THEN i
    ELSE find_from(s, pat, i + 1)

\* `pat in s`
contains(s, pat) == find_from(s, pat, 1) > 0

\* s.split(pat, 1): the text before and after the first pat (all of s and
\* nothing when pat is not in s)
split_once(s, pat) ==
    LET i == find_from(s, pat, 1)
    IN  IF i = 0 THEN <<s, <<>>>>
        ELSE <<SubSeq(s, 1, i - 1), SubSeq(s, i + Len(pat), Len(s))>>

StarsAt == <<"*", "*", "*", "@">>

SchemeSep == <<":", "/", "/">>

\* mask_remote_url
mask_remote_url(url) ==
    LET u == strip(url)
    IN  IF u = <<>> THEN u
        ELSE IF contains(u, SchemeSep)
        THEN LET scheme == split_once(u, SchemeSep)[1]
                 rest == split_once(u, SchemeSep)[2]
                 head == split_once(rest, <<"/">>)[1]
             IN  IF contains(head, <<"@">>)
                 THEN scheme \o SchemeSep \o StarsAt \o split_once(rest, <<"@">>)[2]
                 ELSE u
        ELSE IF contains(u, <<"@">>) /\ contains(u, <<":">>)
        THEN StarsAt \o split_once(u, <<"@">>)[2]
        ELSE u

\* user names (a plain one, an e-mail address) and passwords (none, plain,
\* one with an "@" in it)
UserNames == {<<"u">>, <<"u", "v">>, <<"u", "@", "v">>}

Passwords == {<<>>, <<"p">>, <<"p", "w">>, <<"p", "@", "w">>}

\* the user-info part in front of the host
user_info(user, password) ==
    user \o (IF password = <<>> THEN <<>> ELSE <<":">> \o password) \o <<"@">>

\* host and path as `git remote get-url` prints them
HostPaths == {<<"h">>, <<"h", "/", "r">>, <<"h", "/", "r", "@", "r">>}

\* the URLs of the three forms: scheme://[user-info]host/path,
\* [user-info]host:path and a local path
UrlParts ==
    [form : {"scheme", "scp"}, info : BOOLEAN, user : UserNames, password : Passwords,
     hostpath : HostPaths, pad : BOOLEAN]

\* the URL without its user-info
bare_url(x) ==
    IF x.form = "scheme" THEN <<"s">> \o SchemeSep \o x.hostpath
    ELSE <<Head(x.hostpath), ":">> \o Tail(x.hostpath)

\* the text of the URL
url_text(x) ==
    (IF x.pad THEN <<"SP">> ELSE <<>>)
        \o (IF x.form = "scheme" THEN <<"s">> \o SchemeSep ELSE <<>>)
        \o (IF x.info THEN user_info(x.user, x.password) ELSE <<>>)
        \o (IF x.form = "scheme" THEN x.hostpath
            ELSE <<Head(x.hostpath), ":">> \o Tail(x.hostpath))
        \o (IF x.pad THEN <<"SP">> ELSE <<>>)

MaskInit ==
    /\ probe \in {[fn |-> "mask_remote_url", parts |-> x, url |-> url_text(x),
                   masked |-> <<>>, returned |-> FALSE] : x \in UrlParts}
    /\ running = TRUE
    /\ repo_root \in Roots
    /\ q = <<>>
    /\ workers = [w \in WorkerIds |-> IdleWorker]
    /\ view = InitView
    /\ applied = <<>>
    /\ logged = <<>>
    /\ call = NoCall

\* remotes[name] = mask_remote_url(url)
MaskRemoteUrl ==
    /\ probe.fn = "mask_remote_url"
    /\ ~probe.returned
    /\ probe' = [probe EXCEPT !.returned = TRUE, !.masked = mask_remote_url(probe.url)]
    /\ UNCHANGED <<running, repo_root, q, workers, view, applied, logged, call>>

MaskNext == MaskRemoteUrl

MaskSpec == MaskInit /\ [][MaskNext]_vars

-----------------------------------------------------------------------------
(* _poll as a callback of root.after: ticks that end normally or in an exception *)

\* the branches of _poll that convert a payload or rebuild the lists: the ones
\* where applying an event can raise
MayRaise(e) == e.kind \in {"progress", "data"}

\* The probe tells whether a call of _poll is scheduled (root.after).
TickInit ==
    /\ probe = [fn |-> "_poll", scheduled |-> TRUE, raised |-> FALSE]
    /\ running = TRUE
    /\ repo_root \in Roots
    /\ q \in SeqsUpTo(PollEvents, MaxQueue)
    /\ workers = [w \in WorkerIds |-> IdleWorker]
    /\ view = InitView
    /\ applied = <<>>
    /\ logged = <<>>
    /\ call = NoCall

\* `self.root.after(120, self._poll)` is the last statement of _poll, after the
\* try block: it is reached when the loop ends in queue.Empty, not when
\* another exception leaves the function
tick_reschedules(raised) == ~raised

\* a tick in which every item is applied
TickReturns ==
    /\ probe.fn = "_poll"
    /\ probe.scheduled
    /\ poll_tick
    /\ probe' = [probe EXCEPT !.scheduled = tick_reschedules(FALSE), !.raised = FALSE]

\* a tick in which applying item k raises: the items before it are applied,
\* item k is off the queue, the exception leaves _poll
TickRaises(k) ==
    LET st == apply_all([running |-> running, view |-> view,
                         applied |-> applied, log |-> logged], SubSeq(q, 1, k - 1))
    IN  /\ probe.fn = "_poll"
        /\ probe.scheduled
        /\ k \in DOMAIN q
        /\ MayRaise(q[k])
        /\ q' = SubSeq(q, k + 1, Len(q))
        /\ running' = st.running
        /\ view' = st.view
        /\ applied' = st.applied
        /\ logged' = st.log
        /\ call' = NoCall
        /\ probe' = [probe EXCEPT !.scheduled = tick_reschedules(TRUE), !.raised = TRUE]
        /\ UNCHANGED <<repo_root, workers>>

TickNext ==
    \/ TickReturns
    \/ \E k \in 1..MaxQueue : TickRaises(k)

TickSpec == TickInit /\ [][TickNext]_vars

\* the Tk main loop runs the callbacks that are scheduled
TickFairSpec == TickSpec /\ WF_vars(TickNext)

-----------------------------------------------------------------------------
(* on_push and the sequence it starts, argument by argument *)

\* what the push frame holds, what ensure_remote_for_push returns and what the
\* user and git answer: target and tag_name are valid, empty or hold a space
PushFrameInputs ==
    [target : {"ok", "empty", "space"}, remote : Remotes \cup {""},
     head_ok : BOOLEAN, dirty : {"clean", "yes", "no"},
     force_push : BOOLEAN, danger_ok : BOOLEAN, set_upstream : BOOLEAN,
     create_tag : BOOLEAN, tag_name : {"ok", "empty", "space"}, tag_msg : BOOLEAN]

\* how one command of a sequence ends: stream_git returns zero, returns
\* non-zero, or raises
StepOutcomes == {"zero", "nonzero", "raise"}

\* the dialog that ends on_push before run_git_sequence, "none" when it goes on
on_push_stops(i) ==
    IF i.target # "ok" THEN "error_target"
    ELSE IF i.remote = "" THEN "error_no_remote"
    ELSE IF ~i.head_ok THEN "error_no_head"
    ELSE IF i.dirty = "no" THEN "cancel_dirty"
    ELSE IF i.force_push /\ ~i.danger_ok THEN "cancel_danger"
    ELSE IF i.create_tag /\ i.tag_name # "ok" THEN "error_tag_name"
    ELSE "none"

\* Fault: the tag is pushed before the branch
on_push_commands_tag_first(i) ==
    (IF i.force_push THEN <<<<"fetch", i.remote, "--prune", "--tags", "--progress">>>> ELSE <<>>)
        \o (IF i.create_tag THEN <<<<"tag", "V">>, <<"push", i.remote, "refs/tags/V", "--progress">>>>
            ELSE <<>>)
        \o <<<<"push", i.remote, "HEAD:refs/heads/T", "--progress">>
                \o (IF i.force_push THEN <<"--force-with-lease">> ELSE <<>>)>>

\* the list on_push builds: commands.append in the order of the code, T the
\* target branch, V the tag name, M the tag message
on_push_commands(i) ==
    LET push_cmd == <<"push">> \o (IF i.set_upstream THEN <<"-u">> ELSE <<>>)
                        \o <<i.remote, "HEAD:refs/heads/T", "--progress">>
                        \o (IF i.force_push THEN <<"--force-with-lease">> ELSE <<>>)
    IN  (IF i.force_push THEN <<<<"fetch", i.remote, "--prune", "--tags", "--progress">>>>
         ELSE <<>>)
            \o (IF i.create_tag
                THEN <<IF i.tag_msg THEN <<"tag", "-a", "V", "-m", "M">> ELSE <<"tag", "V">>>>
                ELSE <<>>)
            \o <<push_cmd>>
            \o (IF i.create_tag THEN <<<<"push", i.remote, "refs/tags/V", "--progress">>>>
                ELSE <<>>)

\* the handler invoked, with its inputs, the dialog that stopped it, the
\* list it handed to run_git_sequence, and the worker's loop over that list:
\* started holds the commands spawned, exits how each of them ended
SequenceProbe(fn, i) ==
    [fn |-> fn, in |-> i, pc |-> "handler", stopped |-> "none",
     commands |-> <<>>, started |-> <<>>, exits |-> <<>>]

PushInit ==
    /\ probe \in {SequenceProbe("on_push", i) : i \in PushFrameInputs}
    /\ running = FALSE
    /\ repo_root \in Roots
    /\ q = <<>>
    /\ workers = [w \in WorkerIds |-> IdleWorker]
    /\ view = InitView
    /\ applied = <<>>
    /\ logged = <<>>
    /\ call = NoCall

\* a handler that stops at a dialog, or reaches run_git_sequence with
\* commands; p is the history as the handler's inputs leave it
sequence_handler(p, stopped, title, commands) ==
    /\ probe.pc = "handler"
    /\ ~handler_rejects
    /\ UNCHANGED <<repo_root, q, workers, call>>
    /\ IF stopped # "none"
       THEN /\ probe' = [p EXCEPT !.pc = "ended", !.stopped = stopped]
            /\ UNCHANGED <<running, view, applied, logged>>
       ELSE /\ probe' = [p EXCEPT !.pc = "run", !.commands = commands]
            /\ begin_operation(title, view)

OnPushBuild ==
    /\ probe.fn = "on_push"
    /\ sequence_handler(probe, on_push_stops(probe.in), "push", on_push_commands(probe.in))

\* one round of `for cmd in commands`: stream_git runs the next command; a
\* non-zero exit breaks the loop, an exception leaves the try block; p is the
\* history with what the command did to the repository
sequence_step(p, out) ==
    LET k == Len(probe.started) + 1
    IN  /\ probe.pc = "run"
        /\ k <= Len(probe.commands)
        /\ probe' = [p EXCEPT !.started = Append(@, probe.commands[k]),
                                  !.exits = Append(@, out),
                                  !.pc = IF out = "zero" THEN "run" ELSE "ended"]
        /\ UNCHANGED <<running, repo_root, q, workers, view, applied, logged, call>>

\* the loop has run every command
sequence_ends ==
    /\ probe.pc = "run"
    /\ Len(probe.started) = Len(probe.commands)
    /\ probe' = [probe EXCEPT !.pc = "ended"]
    /\ UNCHANGED <<running, repo_root, q, workers, view, applied, logged, call>>

PushStep == \E out \in StepOutcomes : probe.fn = "on_push" /\ sequence_step(probe, out)

PushEnds == probe.fn = "on_push" /\ sequence_ends

PushNext == OnPushBuild \/ PushStep \/ PushEnds

PushSpec == PushInit /\ [][PushNext]_vars

-----------------------------------------------------------------------------
(* on_checkout_branch and on_delete_branch against the repository *)

Branches == {"b1", "b2"}

\* the repository and its remote: the branch HEAD is on, the local branches
\* (HEAD's among them) and the branches of the remote
BranchRepos ==
    {r \in [head : Branches, local : SUBSET Branches, remote : SUBSET Branches] :
        r.head \in r.local}

\* the selection in the branch list, the remote of the push frame and the
\* answers of git and of the user
BranchInputs ==
    [name : Branches \cup {""}, remote : Remotes \cup {""}, query_ok : BOOLEAN,
     force : BOOLEAN, danger_ok : BOOLEAN, dirty : {"clean", "yes", "no"}]

\* the dialog that ends on_checkout_branch before run_git_sequence
on_checkout_branch_stops(cur, i) ==
    IF i.name = "" THEN "info_select"
    ELSE IF i.name = cur THEN "info_already"
    ELSE IF i.dirty = "no" THEN "cancel_dirty"
    ELSE "none"

\* Fault: on_delete_branch without the test of the current branch
on_delete_branch_stops_no_current_test(cur, i, repo) ==
    IF i.name = "" THEN "info_select"
    ELSE IF i.remote = "" THEN "error_no_remote"
    ELSE IF ~i.query_ok THEN "error_query"
    ELSE IF i.name \notin repo.local /\ i.name \notin repo.remote THEN "info_missing"
    ELSE IF ~i.danger_ok THEN "cancel_danger"
    ELSE "none"

\* the dialog that ends on_delete_branch before run_git_sequence;
\* local_ref_exists and remote_ref_exists ask the repository and the remote
on_delete_branch_stops(cur, i, repo) ==
    IF i.name = "" THEN "info_select"
    ELSE IF i.name = cur THEN "error_current"
    ELSE IF i.remote = "" THEN "error_no_remote"
    ELSE IF ~i.query_ok THEN "error_query"
    ELSE IF i.name \notin repo.local /\ i.name \notin repo.remote THEN "info_missing"
    ELSE IF ~i.danger_ok THEN "cancel_danger"
    ELSE "none"

\* the list on_delete_branch builds
on_delete_branch_commands(i, repo) ==
    (IF i.name \in repo.remote
     THEN <<<<"push", i.remote, "--delete", i.name, "--progress">>>> ELSE <<>>)
        \o (IF i.name \in repo.local
            THEN <<<<"branch", IF i.force THEN "-D" ELSE "-d", i.name>>>> ELSE <<>>)

\* whether git can exit zero on the command: it refuses to delete the branch
\* that is checked out, and a branch that does not exist
git_can_succeed(repo, cmd) ==
    IF cmd[1] = "branch" THEN cmd[3] \in repo.local /\ cmd[3] # repo.head
    ELSE IF cmd[1] = "push" THEN cmd[4] \in repo.remote
    ELSE cmd[2] \in repo.local \cup repo.remote

\* the repository after the command exited zero: checkout moves HEAD (creating
\* the local branch from the remote one), push --delete removes the branch of
\* the remote, branch -d removes the local one
git_effect(repo, cmd) ==
    IF cmd[1] = "checkout"
    THEN [repo EXCEPT !.head = cmd[2], !.local = @ \cup {cmd[2]}]
    ELSE IF cmd[1] = "push" THEN [repo EXCEPT !.remote = @ \ {cmd[4]}]
    ELSE [repo EXCEPT !.local = @ \ {cmd[3]}]

NoSelection ==
    [name |-> "", remote |-> "", query_ok |-> FALSE, force |-> FALSE,
     danger_ok |-> FALSE, dirty |-> "clean"]

\* the controller after a refresh whose snapshot was applied: _current_branch
\* and the branch list are those of the repository
BranchesInit ==
    /\ probe \in {[fn |-> "branches", handler |-> "none", repo |-> r,
                   current_branch |-> r.head, listed |-> r.local \cup r.remote,
                   in |-> NoSelection, pc |-> "handler", stopped |-> "none",
                   commands |-> <<>>, started |-> <<>>, exits |-> <<>>] : r \in BranchRepos}
    /\ running = FALSE
    /\ repo_root \in Roots
    /\ q = <<>>
    /\ workers = [w \in WorkerIds |-> IdleWorker]
    /\ view = InitView
    /\ applied = <<>>
    /\ logged = <<>>
    /\ call = NoCall

\* the history as a handler invoked with inputs i finds it; the selection is a
\* name of the branch list
Invoked(handler, i) ==
    [probe EXCEPT !.handler = handler, !.in = i, !.stopped = "none",
                  !.commands = <<>>, !.started = <<>>, !.exits = <<>>]

OnCheckoutBranchBuild ==
    \E i \in BranchInputs :
        /\ probe.fn = "branches"
        /\ i.name \in probe.listed \cup {""}
        /\ sequence_handler(Invoked("on_checkout_branch", i),
                            on_checkout_branch_stops(probe.current_branch, i),
                            "checkout", <<<<"checkout", i.name>>>>)

OnDeleteBranchBuild ==
    \E i \in BranchInputs :
        /\ probe.fn = "branches"
        /\ i.name \in probe.listed \cup {""}
        /\ sequence_handler(Invoked("on_delete_branch", i),
                            on_delete_branch_stops(probe.current_branch, i, probe.repo),
                            "delete_branch", on_delete_branch_commands(i, probe.repo))

\* the worker runs the next command of the list against the repository
BranchesStep ==
    \E out \in StepOutcomes :
        LET cmd == probe.commands[Len(probe.started) + 1]
        IN  /\ probe.fn = "branches"
            /\ probe.pc = "run"
            /\ Len(probe.started) < Len(probe.commands)
            /\ out = "zero" => git_can_succeed(probe.repo, cmd)
            /\ sequence_step(IF out = "zero"
                             THEN [probe EXCEPT !.repo = git_effect(probe.repo, cmd)]
                             ELSE probe, out)

BranchesEnds == probe.fn = "branches" /\ sequence_ends

\* the handler has returned at a dialog, or the worker has ended its loop: its
\* refresh passes produce a snapshot or none, _poll applies the snapshot
\* (apply_repo_data sets _current_branch and the branch list) and the done
\* event clears _running
BranchesFinish ==
    \E refreshed \in BOOLEAN :
        /\ probe.fn = "branches"
        /\ probe.pc = "ended"
        /\ UNCHANGED <<repo_root, q, workers, applied, logged, call>>
        /\ IF running
           THEN /\ running' = FALSE
                /\ view' = [view EXCEPT !.status = "ready"]
                /\ probe' = IF refreshed
                            THEN [probe EXCEPT !.pc = "handler",
                                               !.current_branch = probe.repo.head,
                                               !.listed = probe.repo.local \cup probe.repo.remote]
                            ELSE [probe EXCEPT !.pc = "handler"]
           ELSE /\ ~refreshed
                /\ probe' = [probe EXCEPT !.pc = "handler"]
                /\ UNCHANGED <<running, view>>

BranchesNext ==
    \/ OnCheckoutBranchBuild
    \/ OnDeleteBranchBuild
    \/ BranchesStep
    \/ BranchesEnds
    \/ BranchesFinish

BranchesSpec == BranchesInit /\ [][BranchesNext]_vars

-----------------------------------------------------------------------------
(* Single-flight *)

\* the invocations that ask for an operation to be started
StartEntries == {"start_refresh", "run_git_sequence", "handler"}

ActiveWorkers == {w \in WorkerIds : Active(w)}

\* C1: an invocation of start_refresh, or of run_git_sequence through one of
\* its handlers, made while _running is true is a no-op: it starts no worker,
\* runs no git command, enqueues no event and leaves _running, _repo_root and
\* the queue (and the view) as they were.
C1_BusyInvocationIsNoOp ==
    [][(call'.entry \in StartEntries /\ call'.busy)
          => /\ ~call'.started /\ ~call'.git /\ ~call'.raised
             /\ workers' = workers
             /\ q' = q
             /\ running' = running
             /\ repo_root' = repo_root
             /\ view' = view]_vars

\* start_refresh has just been invoked while a worker of an earlier operation
\* was active and _running was set
C1_Witness ==
    /\ call.entry = "start_refresh"
    /\ call.busy
    /\ running
    /\ ActiveWorkers # {}

\* C2: in every reachable state at most one worker is active (started and not
\* yet past its done event), so no two workers run git commands at once.
C2_AtMostOneActiveWorker == Cardinality(ActiveWorkers) <= 1

\* a handler of run_git_sequence has just been invoked while the worker of a
\* command sequence is inside a git command, and that worker is the only one
C2_Witness ==
    /\ call.entry = "handler"
    /\ call.busy
    /\ \E w \in WorkerIds : workers[w].pc = "run" /\ ActiveWorkers = {w}

\* an operation's done event has been applied by _poll
DoneDrained == \E i \in DOMAIN applied : applied[i].kind = "done"

\* C3: once the done event of an operation has been drained _running is false,
\* and a start request made from then on with a repository loaded is accepted:
\* it sets _running and starts its own worker.
C3_StartAfterDoneIsAccepted ==
    [][(/\ DoneDrained
        /\ call'.entry \in {"start_refresh", "run_git_sequence"}
        /\ call'.loaded)
          => /\ ~running
             /\ running'
             /\ call'.started
             /\ \E w \in WorkerIds : Free(w) /\ workers'[w].pc \in {"collect", "spawn"}]_vars

-----------------------------------------------------------------------------
(* Termination of an operation *)

DoneCount(events) == Cardinality({i \in DOMAIN events : events[i].kind = "done"})

\* C4: on every path of a worker exactly one done event is enqueued, the last
\* thing the worker does, and with the external commands terminating and _poll
\* ticking, _running, once set, becomes false again.
C4_ExactlyOneDoneAndFlagCleared ==
    /\ [](\A w \in WorkerIds :
            DoneCount(workers[w].emitted) = IF workers[w].pc = "done" THEN 1 ELSE 0)
    /\ running ~> ~running

\* the done event of a command sequence whose first step could not be spawned
\* (the unexpected-exception path) has been applied and _running is false
C4_Witness ==
    /\ ~running
    /\ DoneDrained
    /\ \E w \in WorkerIds :
          /\ workers[w].kind = "seq"
          /\ workers[w].pc = "done"
          /\ workers[w].started = <<>>
          /\ applied = workers[w].emitted

-----------------------------------------------------------------------------
(* The main phase of a command sequence *)

SeqWorkers == {w \in WorkerIds : workers[w].kind = "seq"}

\* C5: when step k is the first to exit non-zero, no later step is ever
\* started and step k is not started again: the steps started are 1..k, each
\* once, and k is the last exit recorded.
C5_FailFast ==
    \A w \in SeqWorkers :
        \A k \in DOMAIN workers[w].exits :
            workers[w].exits[k] # 0
                => /\ k = Len(workers[w].exits)
                   /\ workers[w].started = [j \in 1..k |-> j]

\* a sequence of three steps has ended after its second step exited non-zero
C5_Witness ==
    \E w \in SeqWorkers :
        /\ workers[w].pc = "done"
        /\ Len(workers[w].commands) = 3
        /\ workers[w].exits = <<0, 1>>
        /\ workers[w].started = <<1, 2>>

\* C6: the steps are started in listed order, one at a time: the j-th step
\* started is command j, a step is started only when every step before it has
\* terminated with exit code 0, and at most one step is running.
C6_StepsInOrderOneAtATime ==
    \A w \in SeqWorkers :
        LET wk == workers[w]
        IN  /\ Len(wk.started) <= Len(wk.commands)
            /\ \A j \in DOMAIN wk.started : wk.started[j] = j
            /\ Len(wk.exits) = (IF wk.pc = "run" THEN Len(wk.started) - 1 ELSE Len(wk.started))
            /\ \A j \in DOMAIN wk.exits : j < Len(wk.started) => wk.exits[j] = 0

\* a sequence of four steps has run to its end, every step exiting zero
C6_Witness ==
    \E w \in SeqWorkers :
        /\ workers[w].pc = "done"
        /\ workers[w].started = <<1, 2, 3, 4>>
        /\ workers[w].exits = <<0, 0, 0, 0>>

\* the events of a worker hold event e
Emitted(w, e) == \E i \in DOMAIN workers[w].emitted : workers[w].emitted[i] = e

\* the done event of a worker that has ended
DoneOf(w) == workers[w].emitted[Len(workers[w].emitted)]

\* C7: when a step exits non-zero the events of the operation hold a log line
\* with the exit code, a log line with the command, an error event, and a done
\* event with ok = false and the failure message of the operation; when every
\* step exits zero the done event has ok = true and the success message of
\* the operation.
C7_DoneReportsMainPhase ==
    \A w \in SeqWorkers :
        LET wk == workers[w]
            n == Len(wk.exits)
        IN  wk.pc = "done" =>
              /\ (n > 0 /\ wk.exits[n] # 0)
                    => /\ Emitted(w, LogEv("rc_fail", wk.title, wk.exits[n]))
                       /\ Emitted(w, LogEv("cmd_fail", wk.commands[n], 0))
                       /\ Emitted(w, ErrorEv("seq_failed", wk.title, wk.exits[n]))
                       /\ DoneOf(w) = DoneEv(FALSE, "seq_failed", wk.title)
              /\ (n = Len(wk.commands) /\ \A j \in 1..n : wk.exits[j] = 0)
                    => DoneOf(w) = DoneEv(TRUE, "seq_done", wk.title)

-----------------------------------------------------------------------------
(* The refresh phase *)

\* C8: with refresh_after a data-collection pass is attempted before the done
\* event whatever the main phase did: every step exited zero, a step exited
\* non-zero, or a step failed in another way.
C8_RefreshAlwaysAttempted ==
    \A w \in SeqWorkers :
        (workers[w].refresh_after /\ workers[w].pc \in {"finish", "done"})
            => workers[w].passes # <<>>

\* the worker has emitted the snapshot of a local-only pass, and no done event before it
LocalDataBeforeDone(w) ==
    \E i \in DOMAIN workers[w].emitted :
        /\ workers[w].emitted[i].kind = "data"
        /\ ~workers[w].emitted[i].data.remote_queried
        /\ \A j \in 1..i : workers[w].emitted[j].kind # "done"

\* C9: when a pass that queries a remote fails with a command error, a second
\* pass is made with no remote, and when that one succeeds its snapshot, with
\* no remote branches or tags, is enqueued as a data event before the done
\* event; for the refresh worker and for the refresh phase of a sequence.
C9_DegradedRefresh ==
    \A w \in WorkerIds :
        LET wk == workers[w]
        IN  (/\ wk.pc \in {"finish", "done"}
             /\ wk.passes # <<>>
             /\ wk.passes[1].rq # ""
             /\ wk.passes[1].status = "cmd_error")
                => /\ Len(wk.passes) = 2
                   /\ wk.passes[2].rq = ""
                   /\ wk.passes[2].status = "data" => LocalDataBeforeDone(w)

\* the worker of a command sequence has ended after a failed remote pass and a
\* successful local-only pass
C9_Witness ==
    \E w \in WorkerIds :
        /\ workers[w].kind = "seq"
        /\ workers[w].pc = "done"
        /\ Len(workers[w].passes) = 2
        /\ workers[w].passes[1] = [rq |-> "origin", status |-> "cmd_error"]
        /\ workers[w].passes[2] = [rq |-> "", status |-> "data"]
        /\ LocalDataBeforeDone(w)

\* every pass the worker made produced a snapshot or failed while a remote was queried
NoLocalOnlyFailure(w) ==
    \A k \in DOMAIN workers[w].passes :
        \/ workers[w].passes[k].status = "data"
        \/ workers[w].passes[k].rq # "" /\ workers[w].passes[k].status = "cmd_error"

\* C10: a sequence run with refresh_after enqueues at least one data event
\* before its done event, whatever the remote does (stated for the runs in
\* which no local-only pass fails).
C10_SnapshotBeforeDone ==
    \A w \in SeqWorkers :
        (workers[w].refresh_after /\ workers[w].pc = "done" /\ NoLocalOnlyFailure(w))
            => \E i \in DOMAIN workers[w].emitted :
                  /\ workers[w].emitted[i].kind = "data"
                  /\ i < Len(workers[w].emitted)

\* every step of the sequence was run and exited zero
AllStepsExitedZero(w) ==
    /\ Len(workers[w].exits) = Len(workers[w].commands)
    /\ \A j \in DOMAIN workers[w].exits : workers[w].exits[j] = 0

\* C11: whatever happens in the refresh phase (the pass or its local-only
\* retry failing), the done event of a command sequence has ok = true and the
\* success message exactly when every step exited zero, and ok = false and the
\* failure message otherwise.
C11_RefreshKeepsOutcome ==
    \A w \in SeqWorkers :
        (workers[w].pc = "done" /\ workers[w].passes # <<>>)
            => DoneOf(w) = (IF AllStepsExitedZero(w)
                            THEN DoneEv(TRUE, "seq_done", workers[w].title)
                            ELSE DoneEv(FALSE, "seq_failed", workers[w].title))

\* C12: a local-only second pass is made only after a first pass that queried
\* a remote and failed with a command error; a first pass that was local-only
\* is not followed by a second pass.
C12_RetryOnlyAfterRemotePass ==
    \A w \in WorkerIds :
        Len(workers[w].passes) >= 2
            => /\ workers[w].passes[1].rq # ""
               /\ workers[w].passes[1].status = "cmd_error"

-----------------------------------------------------------------------------
(* The event queue *)

\* C13: the events one worker has enqueued are, at every moment, the events
\* _poll has applied followed by the events still queued, in the order the
\* worker enqueued them: none is lost, duplicated or reordered.
C13_EventsAppliedInOrder ==
    \A w \in WorkerIds :
        workers[w].pc # "idle" => workers[w].emitted = applied \o q

\* a worker is done; its log, progress, data and done events have all been
\* applied, in the order it enqueued them
C13_Witness ==
    \E w \in WorkerIds :
        /\ workers[w].pc = "done"
        /\ q = <<>>
        /\ applied = workers[w].emitted
        /\ \E i, j, k \in DOMAIN applied :
              /\ i < j /\ j < k /\ k < Len(applied)
              /\ applied[i].kind = "log"
              /\ applied[j].kind = "progress"
              /\ applied[k].kind = "data"
        /\ applied[Len(applied)].kind = "done"

\* the events worker w enqueues in the step being taken
Enqueued(w) ==
    SubSeq(workers'[w].emitted, Len(workers[w].emitted) + 1, Len(workers'[w].emitted))

\* C14: a step taken by a worker thread leaves _running, _repo_root and the
\* view as they are and touches no other thread's record: all it does to the
\* application is to put its events at the end of the queue. _running and the
\* view are therefore written by the UI thread only.
C14_SingleWriter ==
    [][\A w \in WorkerIds :
          (Active(w) /\ workers'[w] # workers[w])
              => /\ UNCHANGED <<running, repo_root, view, applied, logged>>
                 /\ q' = q \o Enqueued(w)
                 /\ \A o \in WorkerIds \ {w} : workers'[o] = workers[o]]_vars

\* a worker has finished: its snapshot and its done event are queued, while
\* _running is still set and the view still shows the old remote list
C14_Witness ==
    \E w \in WorkerIds :
        /\ workers[w].pc = "done"
        /\ running
        /\ q # <<>>
        /\ q[Len(q)].kind = "done"
        /\ \E i \in DOMAIN q :
              q[i].kind = "data" /\ q[i].data.remotes # view.remote_values

-----------------------------------------------------------------------------
(* Threads *)

\* C15: no invocation of start_refresh (directly or from try_set_repo) or of a
\* handler of the UI thread runs a git command itself: external commands are
\* run by worker threads only.
C15_NoGitOnUiThread == ~call.git

\* worker w has enqueued an event of this kind and tag
HasEvent(w, kind, tag) ==
    \E i \in DOMAIN workers[w].emitted :
        workers[w].emitted[i].kind = kind /\ workers[w].emitted[i].tag = tag

\* a step of the sequence raised: the worker ended without a refresh pass
StepRaised(w) ==
    /\ workers[w].kind = "seq"
    /\ workers[w].pc \in {"finish", "done"}
    /\ workers[w].refresh_after
    /\ workers[w].passes = <<>>

\* a data-collection pass of worker w raised (a command error or anything else)
PassRaised(w) ==
    \E i \in DOMAIN workers[w].passes : workers[w].passes[i].status # "data"

\* C16, as stated: whenever a step or a data-collection pass of a worker raised,
\* the worker has enqueued a log or an error event and its done event carries
\* ok = false.
C16_ExceptionsBecomeFailure ==
    \A w \in WorkerIds :
        (workers[w].pc = "done" /\ (StepRaised(w) \/ PassRaised(w)))
            => /\ \E i \in DOMAIN workers[w].emitted :
                     workers[w].emitted[i].kind \in {"log", "error"}
               /\ ~DoneOf(w).ok

\* what a worker enqueued last before its done event
LastBeforeDone(w) == workers[w].emitted[Len(workers[w].emitted) - 1]

\* C16, amended: every worker ends by enqueuing exactly one done event, its
\* last event. An exception raised by a step, any exception raised by the
\* first pass of a refresh operation, and an exception other than a command
\* error raised by the post-operation pass become a log and an error event and
\* done(ok = false). A command error of the post-operation pass becomes two
\* warning log events and leaves ok as the steps set it. An exception raised by
\* a local-only retry becomes no event at all.
C16_ExceptionsCaught ==
    \A w \in WorkerIds :
        workers[w].pc = "done" =>
            LET wk == workers[w]
                first == wk.passes[1].status
            IN  /\ DoneCount(wk.emitted) = 1
                /\ wk.emitted[Len(wk.emitted)].kind = "done"
                /\ StepRaised(w)
                     => /\ HasEvent(w, "log", "exception")
                        /\ HasEvent(w, "error", "exception")
                        /\ ~DoneOf(w).ok
                /\ (wk.kind = "refresh" /\ first # "data")
                     => /\ HasEvent(w, "log", "refresh_error")
                        /\ HasEvent(w, "error", "refresh_failed")
                        /\ ~DoneOf(w).ok
                /\ (wk.kind = "seq" /\ wk.passes # <<>> /\ first = "exception")
                     => /\ HasEvent(w, "log", "exception")
                        /\ HasEvent(w, "error", "exception")
                        /\ ~DoneOf(w).ok
                /\ (wk.kind = "seq" /\ wk.passes # <<>> /\ first = "cmd_error")
                     => /\ HasEvent(w, "log", "refresh_warn")
                        /\ HasEvent(w, "log", "output")
                        /\ DoneOf(w).ok = AllStepsExitedZero(w)
                /\ (Len(wk.passes) = 2 /\ wk.passes[2].status # "data")
                     => LastBeforeDone(w) = (IF wk.kind = "seq"
                                             THEN LogEv("output", "", 0)
                                             ELSE ErrorEv("refresh_failed", "", 0))

\* a sequence worker is done whose steps all exited zero and whose
\* post-operation pass raised something other than a command error: the
\* exception became a log and an error event and done carries ok = false
C16_Witness ==
    \E w \in SeqWorkers :
        /\ workers[w].pc = "done"
        /\ AllStepsExitedZero(w)
        /\ workers[w].passes # <<>>
        /\ workers[w].passes[1].status = "exception"
        /\ HasEvent(w, "error", "exception")
        /\ ~DoneOf(w).ok

UnknownKind(e) == e.kind \notin KnownKinds

KnownOnly(events) == SelectSeq(events, LAMBDA e : ~UnknownKind(e))

NotWarning(l) == l # "warn_unknown"

\* C17: a poll tick over a queue that holds events of unknown kinds ends as
\* the tick over the same queue without them does (_running, the view and the
\* other log lines are the same, so the events behind an unknown one are
\* applied), except that the log has one warning line more per unknown event;
\* every item is taken from the queue, none raises.
C17_UnknownEventOnlyWarns ==
    [][(q # <<>> /\ q' = <<>>)
          => LET ref == apply_all([running |-> running, view |-> view,
                                   applied |-> applied, log |-> logged], KnownOnly(q))
             IN  /\ running' = ref.running
                 /\ view' = ref.view
                 /\ SelectSeq(logged', NotWarning) = ref.log
                 /\ Len(logged') = Len(ref.log) + (Len(q) - Len(KnownOnly(q)))
                 /\ applied' = applied \o q]_vars

\* a tick has applied an event of an unknown kind and, behind it, a done
\* event: the log holds the one warning, _running is cleared by the done event
\* and the status shows its message
C17_Witness ==
    /\ q = <<>>
    /\ \E i, j \in DOMAIN applied :
          /\ i < j
          /\ UnknownKind(applied[i])
          /\ applied[j].kind = "done"
          /\ view.status = applied[j].tag
    /\ ~running
    /\ Len(SelectSeq(logged, NotWarning)) = Len(logged) - 1

-----------------------------------------------------------------------------
(* The ls-remote parsers *)

\* list_remote_tags_ls_remote has returned
TagsReturned == probe.fn = "tags" /\ probe.returned

\* the positions of the lightweight and of the peeled lines of tag x
LightAt(x) ==
    {i \in DOMAIN probe.listing :
        \E h \in Hashes : probe.listing[i] = RefLine(h, "refs/tags/", x)}

PeeledAt(x) ==
    {i \in DOMAIN probe.listing : \E h \in Hashes : probe.listing[i] = PeeledLine(h, x)}

LastPeeled(x) == CHOOSE i \in PeeledAt(x) : \A j \in PeeledAt(x) : j <= i

\* how often the name n is in the list returned
Occurrences(n) == Cardinality({i \in DOMAIN probe.names : probe.names[i] = n})

\* C18: when the listing holds a lightweight line and a peeled line of the
\* same tag X, in either order and whatever the other lines, X is returned
\* exactly once and the hash kept for X is the one of the peeled line (of the
\* last one when there are several).
C18_PeeledHashWins ==
    TagsReturned =>
        \A x \in NameLetters :
            (LightAt(x) # {} /\ PeeledAt(x) # {})
                => /\ Occurrences(<<x>>) = 1
                   /\ \A p \in probe.sha :
                         p.name = <<x>> => p.sha = <<probe.listing[LastPeeled(x)][1]>>
                   /\ \E p \in probe.sha : p.name = <<x>>

\* a lightweight line of a tag comes before its peeled line and a third line
\* follows; the two hashes differ and the hash kept is the peeled line's
C18_Witness ==
    /\ TagsReturned
    /\ Len(probe.listing) = 3
    /\ probe.listing[1] = RefLine("h1", "refs/tags/", "a")
    /\ probe.listing[2] = PeeledLine("h2", "a")
    /\ probe.names = << <<"a">> >>
    /\ probe.sha = {[name |-> <<"a">>, sha |-> <<"h2">>]}

\* C19: the list of tags returned is strictly increasing in the order of
\* Python strings, hence sorted and free of duplicates, and none of its names
\* ends with the peel marker.
C19_SortedBaseNames ==
    TagsReturned =>
        /\ \A i, j \in DOMAIN probe.names :
              i < j => NameLess(probe.names[i], probe.names[j])
        /\ \A i \in DOMAIN probe.names :
              probe.names[i][Len(probe.names[i])] # PeelMarker

\* a line is malformed when it has no tab, or when the text before its first
\* tab or the text after it is empty once trimmed
Malformed(line) ==
    LET parts == split_tab(line)
    IN  \/ Len(parts) # 2
        \/ strip(parts[1]) = <<>>
        \/ strip(parts[2]) = <<>>

WithoutMalformed(listing) == SelectSeq(listing, LAMBDA l : ~Malformed(l))

\* C20: both parsers return for a listing what they return for the listing
\* without its malformed lines.
C20_MalformedLinesSkipped ==
    /\ TagsReturned
         => /\ probe.names = list_remote_tags_ls_remote(WithoutMalformed(probe.listing))
            /\ probe.sha = tag_to_sha(WithoutMalformed(probe.listing))
    /\ (probe.fn = "branches" /\ probe.returned)
         => probe.names = list_remote_branches_ls_remote(WithoutMalformed(probe.listing))

\* list_remote_branches_ls_remote has returned
BranchesReturned == probe.fn = "branches" /\ probe.returned

\* the positions of the lines that, trimmed, are a hash, a tab and refs/heads/x
HeadLinesOf(x) ==
    {i \in DOMAIN probe.listing :
        \E h \in Hashes : strip(probe.listing[i]) = RefLine(h, "refs/heads/", x)}

\* C21, as stated: the list of branches returned is strictly increasing in the
\* order of Python strings (sorted, no name twice), every name in it is the
\* short name of a refs/heads/ line, and every such line is represented.
C21_SortedUniqueShortNames ==
    BranchesReturned =>
        /\ \A i, j \in DOMAIN probe.names :
              i < j => NameLess(probe.names[i], probe.names[j])
        /\ \A i \in DOMAIN probe.names :
              \E x \in NameLetters : probe.names[i] = <<x>> /\ HeadLinesOf(x) # {}
        /\ \A x \in NameLetters : HeadLinesOf(x) # {} => Occurrences(<<x>>) >= 1

\* C21, amended: the list returned is in non-decreasing order and holds the
\* short name of every refs/heads/ line once per line, so a ref listed twice
\* is returned twice and the names are unique when every ref is listed once;
\* lines outside refs/heads/ contribute nothing.
C21_SortedShortNamesPerLine ==
    BranchesReturned =>
        /\ \A i, j \in DOMAIN probe.names :
              i < j => ~NameLess(probe.names[j], probe.names[i])
        /\ \A i \in DOMAIN probe.names :
              \E x \in NameLetters : probe.names[i] = <<x>>
        /\ \A x \in NameLetters : Occurrences(<<x>>) = Cardinality(HeadLinesOf(x))

\* branch b is listed before branch a, with a tag line between them: the
\* names come back as a, b
C21_Witness ==
    /\ BranchesReturned
    /\ probe.listing = <<RefLine("h1", "refs/heads/", "b"),
                         RefLine("h1", "refs/tags/", "a"),
                         RefLine("h2", "refs/heads/", "a")>>
    /\ probe.names = << <<"a">>, <<"b">> >>

-----------------------------------------------------------------------------
(* The union view *)

\* the records are one per name of the union of the two lists, in strictly
\* increasing order, each flagged with the lists its name is in
UnionRecords(items, local, remote) ==
    /\ {items[i].name : i \in DOMAIN items} = Range(local) \cup Range(remote)
    /\ \A i, j \in DOMAIN items : i < j => NameLess(items[i].name, items[j].name)
    /\ \A i \in DOMAIN items :
          /\ items[i].local = (\E k \in DOMAIN local : local[k] = items[i].name)
          /\ items[i].remote = (\E k \in DOMAIN remote : remote[k] = items[i].name)
          /\ items[i].local \/ items[i].remote

\* C22: the branch records and the tag records apply_repo_data builds are
\* exactly one record per name of the union of the local and the remote list,
\* in sorted order, with local and remote telling the lists the name is in;
\* every record has local or remote true.
C22_UnionView ==
    (probe.fn = "apply_repo_data" /\ probe.returned)
        => /\ UnionRecords(probe.branches, probe.data.local_branches,
                           probe.data.remote_branches)
           /\ UnionRecords(probe.tags, probe.data.local_tags, probe.data.remote_tags)

\* local branches dev and main, remote branches feature and main: the records
\* are dev (local only), feature (remote only), main (both)
C22_Witness ==
    /\ probe.fn = "apply_repo_data"
    /\ probe.returned
    /\ probe.data.local_branches = << <<"a">>, <<"b">> >>
    /\ probe.data.remote_branches = << <<"a", "b">>, <<"b">> >>
    /\ Len(probe.branches) = 3
    /\ probe.branches[1].name = <<"a">>
    /\ probe.branches[1].local /\ ~probe.branches[1].remote
    /\ probe.branches[2].name = <<"a", "b">>
    /\ ~probe.branches[2].local /\ probe.branches[2].remote
    /\ probe.branches[3].name = <<"b">>
    /\ probe.branches[3].local /\ probe.branches[3].remote

-----------------------------------------------------------------------------
(* The two runners *)

\* git_capture is over for a command that was spawned
Captured == probe.fn = "git_capture" /\ probe.returned /\ probe.run.spawned

\* C23: when the command exits zero git_capture returns the decoded text of
\* standard output followed by that of standard error, as it is; when the
\* command exits non-zero it raises GitCommandError with the argument vector
\* run, the exit code and the same text, and does not return.
C23_CaptureReturnsOrRaises ==
    Captured =>
        LET text == decode(probe.run.stdout) \o decode(probe.run.stderr)
        IN  IF probe.run.returncode = 0
            THEN probe.result = [kind |-> "return", out |-> text]
            ELSE /\ probe.result.kind = "GitCommandError"
                 /\ probe.result.cmd = <<"git", "--no-pager">> \o probe.args
                 /\ probe.result.returncode = probe.run.returncode
                 /\ probe.result.output = text

\* a command that wrote to both streams and exited with 128: the error raised
\* carries both texts and the code
C23_Witness ==
    /\ Captured
    /\ probe.run.returncode = 128
    /\ probe.run.stdout # <<>>
    /\ probe.run.stderr # <<>>
    /\ probe.result.kind = "GitCommandError"
    /\ probe.result.returncode = 128
    /\ Len(probe.result.output) = Len(probe.run.stdout) + Len(probe.run.stderr)

Streaming == probe.fn = "stream_git"

\* the lines stream_git has read so far, without their line ends
LinesRead == [i \in 1..probe.read |-> rstrip_newline(probe.script[i])]

\* the on_log calls made so far
LogCalls == SelectSeq(probe.calls, LAMBDA c : c.cb = "on_log")

\* C24: after the call for the command line, on_log has been invoked once for
\* each line read, in the order the process printed them; a line the process
\* has printed can be read at once, whether or not the process is over; and
\* stream_git returns the exit code of the process only when every line was
\* read and the process has ended.
C24_LinesStreamedInOrder ==
    (Streaming /\ probe.pc # "call") =>
        /\ Tail(LogCalls) = [i \in 1..probe.read |-> OnLog(LinesRead[i])]
        /\ (probe.pc = "loop" /\ probe.read < probe.written) => ENABLED StreamRead
        /\ probe.returned
             => /\ probe.read = Len(probe.script)
                /\ probe.exited
                /\ probe.result = probe.rc

\* the first of two lines has been handed to on_log while the process is still
\* running and has not printed the second
C24_Witness ==
    /\ Streaming
    /\ probe.pc = "loop"
    /\ ~probe.exited
    /\ Len(probe.script) = 2
    /\ probe.written = 1
    /\ probe.read = 1
    /\ Len(LogCalls) = 2

\* the stage and percentage pairs a line holds: a stage label, a colon, one
\* space or more, a number, a percent sign
PatternsIn(line) ==
    {[stage |-> line[i], pct |-> ToInt[line[i + 2 + k]]] :
        <<i, k>> \in {<<i, k>> \in (DOMAIN line) \X (1..Len(line)) :
                        /\ line[i] \in StageLabels
                        /\ i + 3 + k <= Len(line)
                        /\ line[i + 1] = ":"
                        /\ \A j \in (i + 2)..(i + 1 + k) : line[j] = "SP"
                        /\ line[i + 2 + k] \in Digits
                        /\ line[i + 3 + k] = "%"}}

\* C25: on_progress is invoked exactly once for a line that holds a stage
\* label followed by a colon, spaces, a number and a percent sign, right after
\* on_log for that line and with a percentage and a label of that line; it is
\* invoked for no other line.
C25_ProgressExactlyForPatternLines ==
    Streaming =>
        \A k \in DOMAIN probe.calls :
            /\ probe.calls[k].cb = "on_log"
                 => (PatternsIn(probe.calls[k].line) # {}
                       <=> /\ k + 1 <= Len(probe.calls)
                           /\ probe.calls[k + 1].cb = "on_progress")
            /\ probe.calls[k].cb = "on_progress"
                 => /\ probe.calls[k - 1].cb = "on_log"
                    /\ [stage |-> probe.calls[k].stage, pct |-> probe.calls[k].pct]
                          \in PatternsIn(probe.calls[k - 1].line)

\* a line with text around "Resolving deltas:  100%" was read: on_progress was
\* invoked with 100 and that label
C25_Witness ==
    /\ Streaming
    /\ \E k \in DOMAIN probe.calls :
          /\ probe.calls[k] = OnProgress(100, "Resolving deltas")
          /\ probe.calls[k - 1].line[1] = "x"

HasPrompt(line) == \E i \in DOMAIN line : line[i] \in PromptOpenings

\* the position of the on_log call that opens the turn of the loop call k is in
TurnOf(k) ==
    CHOOSE j \in 1..k :
        /\ probe.calls[j].cb = "on_log"
        /\ \A m \in (j + 1)..k : probe.calls[m].cb # "on_log"

\* C26: on_hint is invoked once in the turn of a line that holds the opening
\* of a username or password prompt, after on_log for that line, and in no
\* other turn; the events reach the queue, and so the UI, in the order of the
\* calls, the hint after its line.
C26_HintOncePerPromptLine ==
    Streaming =>
        /\ applied \o q = callback_events(probe.calls)
        /\ \A j \in DOMAIN probe.calls :
              probe.calls[j].cb = "on_log"
                => Cardinality({k \in DOMAIN probe.calls :
                                   /\ probe.calls[k].cb = "on_hint"
                                   /\ TurnOf(k) = j})
                     = (IF HasPrompt(probe.calls[j].line) THEN 1 ELSE 0)

\* the UI has applied the log event of a username prompt and, right after it,
\* the log event of the hint
C26_Witness ==
    /\ Streaming
    /\ \E k \in DOMAIN applied :
          /\ k + 1 <= Len(applied)
          /\ applied[k] = LogEv("line", <<"Username for '", "x">>, 0)
          /\ applied[k + 1] = LogEv("hint", "", 0)

\* C27: every command stream_git spawns gets GIT_TERMINAL_PROMPT=0 and
\* GIT_PAGER=cat, whatever the application inherited.
C27_ChildEnvForced ==
    (Streaming /\ probe.pc # "call")
        => /\ probe.env.GIT_TERMINAL_PROMPT = "0"
           /\ probe.env.GIT_PAGER = "cat"

-----------------------------------------------------------------------------
(* The recent list *)

RecentList == probe.config.recent_repos

\* C28: after any sequence of add_recent_repo, open_recent_repo and
\* clear_recent_repos the list holds at most ten entries, no path twice, the
\* later added before the earlier added, and after add_recent_repo(p) its
\* first entry and last_repo are the absolute path of p.
C28_RecentListInvariant ==
    probe.fn = "recent" =>
        /\ Len(RecentList) <= 10
        /\ \A i, j \in DOMAIN RecentList :
              i < j => /\ RecentList[i] # RecentList[j]
                       /\ probe.stamp[RecentList[i]] > probe.stamp[RecentList[j]]
        /\ probe.op.added =>
              /\ RecentList # <<>>
              /\ RecentList[1] = abspath(probe.op.arg)
              /\ probe.config.last_repo = abspath(probe.op.arg)
              /\ isabs(RecentList[1])
              /\ normpath(Tail(RecentList[1]), <<>>) = Tail(RecentList[1])

\* a path given by a relative spelling was added to a full list: the list
\* still has ten entries and the oldest one has left it
C28_Witness ==
    /\ probe.fn = "recent"
    /\ probe.op.name = "add"
    /\ abspath(probe.op.arg) # probe.op.arg
    /\ Len(RecentList) = 10
    /\ probe.stamp[Dir(1)] > 0
    /\ Dir(1) \notin Range(RecentList)

-----------------------------------------------------------------------------
(* Cancelled dialogs *)

\* the dialogs that collect structured input
InputDialogs == {"commit", "identity", "danger", "github"}

CancelledAt(k) ==
    probe.steps[k].kind = "cancel" /\ probe.steps[k].what \in InputDialogs

\* C29: when the user cancels a structured-input dialog of a handler, the
\* handler afterwards runs no git command, reports no error, starts no worker,
\* and _running stays false.
C29_CancelAbortsCleanly ==
    probe.fn = "dialogs" =>
        \A k \in DOMAIN probe.steps :
            CancelledAt(k) =>
                /\ \A j \in DOMAIN probe.steps :
                      j > k => probe.steps[j].kind \notin {"git", "error", "run", "open"}
                /\ ~running
                /\ \A w \in WorkerIds : workers[w] = IdleWorker

-----------------------------------------------------------------------------
(* No repository *)

\* C30: try_set_repo on a directory that is missing or is no repository does
\* not raise, sets the root to none and starts nothing; and an invocation of
\* start_refresh or of a handler of run_git_sequence (fetch, push, commit,
\* checkout, delete) made while the root is none is a no-op.
C30_NoRepositoryIsNoOp ==
    [][/\ (call'.entry = "try_set_repo" /\ ~call'.loaded)
          => /\ repo_root' = NoRepo
             /\ ~call'.raised /\ ~call'.started
             /\ workers' = workers
             /\ q' = q
             /\ running' = running
       /\ (call'.entry \in StartEntries /\ ~call'.loaded)
          => /\ ~call'.started /\ ~call'.git /\ ~call'.raised
             /\ workers' = workers
             /\ q' = q
             /\ running' = running
             /\ repo_root' = NoRepo
             /\ view' = view]_vars

\* a handler has just been invoked with the root none and nothing running,
\* after an operation on a repository that try_set_repo has since dropped
C30_Witness ==
    /\ call.entry = "handler"
    /\ ~call.loaded
    /\ ~call.busy
    /\ repo_root = NoRepo
    /\ \E w \in WorkerIds : workers[w].pc = "done"

-----------------------------------------------------------------------------
(* Snapshots *)

\* a snapshot all of whose fields were computed, by one and the same pass
WholeSnapshot(d) ==
    \E n \in 0..2 : \A f \in DOMAIN d.fields : d.fields[f].pass = n /\ d.fields[f].v # "unset"

DataEvents(events) == {events[i].data : i \in {j \in DOMAIN events : events[j].kind = "data"}}

LastData(events) ==
    LET idx == {j \in DOMAIN events : events[j].kind = "data"}
    IN  events[CHOOSE j \in idx : \A i \in idx : i <= j].data

\* the view shows the fields of snapshot d and nothing else
ShownIs(d) ==
    /\ probe.shown.summary = <<d.fields["branch"], d.fields["head"], d.fields["dirty"],
                               d.fields["urls"]>>
    /\ probe.shown.remotes = d.remotes
    /\ probe.shown.branches = <<d.fields["local_branches"], d.fields["remote_branches"]>>
    /\ probe.shown.tags = <<d.fields["local_tags"], d.fields["remote_tags"]>>

\* C31: a data event is enqueued only by a pass all of whose queries have
\* completed, so every snapshot enqueued or applied is whole and comes from one
\* pass; and once a snapshot has been applied, the summary, the remotes and the
\* two lists are those of the snapshot applied last, nothing of an earlier one.
C31_SnapshotAtomic ==
    probe.fn = "collect" =>
        /\ \A d \in DataEvents(q) \cup DataEvents(applied) : WholeSnapshot(d)
        /\ probe.pc \in DOMAIN Queries => DataEvents(q) \cup DataEvents(applied) = {}
        /\ DataEvents(applied) # {} => ShownIs(LastData(applied))

\* the snapshot of the local-only second pass has replaced, on the view, the
\* one of an earlier operation, after the first pass had failed half way
C31_Witness ==
    /\ probe.fn = "collect"
    /\ DataEvents(applied) # {}
    /\ LastData(applied).fields["head"].pass = 2
    /\ probe.shown.tags[1].pass = 2
    /\ probe.shown.remotes = {}

-----------------------------------------------------------------------------
(* Credentials *)

CredentialLetters == {"u", "v", "p", "w"}

\* the one text every choice of credentials is masked to
MaskedText(x) ==
    IF x.form = "scheme"
    THEN <<"s">> \o SchemeSep \o StarsAt \o x.hostpath
    ELSE StarsAt \o <<Head(x.hostpath), ":">> \o Tail(x.hostpath)

\* C32: the masked text of a URL with a user-info part holds no character of
\* the user name or of the password, and is the same whatever the credentials
\* are.
C32_CredentialsStripped ==
    (probe.fn = "mask_remote_url" /\ probe.returned /\ probe.parts.info) =>
        /\ Range(probe.masked) \cap CredentialLetters = {}
        /\ probe.masked = MaskedText(probe.parts)

\* the same for credentials that hold no "@"
C32_PlainCredentialsStripped ==
    (/\ probe.fn = "mask_remote_url" /\ probe.returned /\ probe.parts.info
     /\ ~contains(probe.parts.user, <<"@">>)
     /\ ~contains(probe.parts.password, <<"@">>)) =>
        /\ Range(probe.masked) \cap CredentialLetters = {}
        /\ probe.masked = MaskedText(probe.parts)

-----------------------------------------------------------------------------
(* The poll loop *)

\* C33: whatever a tick of _poll processed, and also when applying an event
\* raised, the loop runs again: the events still queued, a done event among
\* them, are drained.
C33_PollSurvivesFailure == (q # <<>>) ~> (q = <<>>)

-----------------------------------------------------------------------------
(* The root during an operation *)

\* C34: while _running is true the repository root does not change, so every
\* step of a command sequence and its refresh run against the root the
\* sequence was started on.
C34_RootFixedWhileRunning == [][running => repo_root' = repo_root]_vars

-----------------------------------------------------------------------------
(* The done event closes the operation *)

\* C35: the done event is the last event a worker enqueues, and in the step
\* in which _running becomes false every event of the operation, its
\* snapshots included, has been applied and nothing is left in the queue.
C35_DoneIsLast ==
    /\ [](\A w \in WorkerIds : \A i \in DOMAIN workers[w].emitted :
            workers[w].emitted[i].kind = "done" => i = Len(workers[w].emitted))
    /\ [][(running /\ ~running')
             => /\ q' = <<>>
                /\ \E w \in WorkerIds :
                      /\ workers[w].pc = "done"
                      /\ applied' = workers[w].emitted]_vars

\* _running is false again after a command sequence whose refresh produced a
\* snapshot: the snapshot was applied before the done event
C35_Witness ==
    /\ ~running
    /\ applied # <<>>
    /\ applied[Len(applied)].kind = "done"
    /\ \E w \in WorkerIds :
          /\ workers[w].kind = "seq"
          /\ applied = workers[w].emitted
    /\ \E i \in DOMAIN applied : applied[i].kind = "data"

-----------------------------------------------------------------------------
(* What the done event of a refresh says *)

EmittedData(w) ==
    {i \in DOMAIN workers[w].emitted : workers[w].emitted[i].kind = "data"}

\* C36: the done event of a refresh carries ok = true exactly when the
\* requested pass succeeded; when that pass failed and the local-only pass
\* supplied the snapshot, a data event precedes done, which carries ok = false
\* and the message that local information is shown; when no pass succeeded no
\* data event is enqueued and done carries ok = false.
C36_RefreshDoneOk ==
    \A w \in WorkerIds :
        (workers[w].kind = "refresh" /\ workers[w].pc = "done")
            => LET wk == workers[w]
                   done == DoneOf(w)
                   n == Len(wk.passes)
               IN  /\ done.kind = "done"
                   /\ n \in 1..2
                   /\ done.ok <=> wk.passes[1].status = "data"
                   /\ (n = 2 /\ wk.passes[2].status = "data")
                        => /\ EmittedData(w) # {}
                           /\ ~done.ok
                           /\ done.tag = "refresh_local_shown"
                   /\ (\A k \in 1..n : wk.passes[k].status # "data")
                        => /\ EmittedData(w) = {}
                           /\ ~done.ok
                           /\ done.tag = "refresh_failed"

\* a refresh whose remote pass failed and whose local-only pass supplied the
\* snapshot has ended, and its events were applied
C36_Witness ==
    \E w \in WorkerIds :
        /\ workers[w].kind = "refresh"
        /\ workers[w].pc = "done"
        /\ Len(workers[w].passes) = 2
        /\ workers[w].passes[2].status = "data"
        /\ ~running
        /\ applied = workers[w].emitted
        /\ ~DoneOf(w).ok

-----------------------------------------------------------------------------
(* The order of the commands of a push *)

\* the positions in the list of the commands holding the argument a
Holding(commands, a) ==
    {k \in DOMAIN commands : \E j \in DOMAIN commands[k] : commands[k][j] = a}

\* the position of the branch push in a list that was built
BranchPush(commands) == CHOOSE k \in Holding(commands, "HEAD:refs/heads/T") : TRUE

\* C37: with force push the list starts with a fetch of the remote and the
\* branch push carries --force-with-lease and no plain force; with tag
\* creation the tag is created before the branch push and the tag push is the
\* last command, spawned only after the branch push exited zero; commands are
\* spawned in list order, each after the one before exited zero; and when the
\* target branch or the tag name is invalid no command is spawned.
C37_PushOrder ==
    probe.fn = "on_push"
        => LET i == probe.in
               c == probe.commands
               n == Len(c)
           IN  /\ (i.target # "ok" \/ (i.create_tag /\ i.tag_name # "ok"))
                    => (c = <<>> /\ probe.started = <<>>)
               /\ c # <<>>
                    => /\ Cardinality(Holding(c, "HEAD:refs/heads/T")) = 1
                       /\ Holding(c, "--force") \cup Holding(c, "-f")
                            \cup Holding(c, "+HEAD:refs/heads/T") = {}
                       /\ i.force_push
                            => /\ c[1][1] = "fetch"
                               /\ i.remote \in {c[1][j] : j \in DOMAIN c[1]}
                               /\ Holding(c, "--force-with-lease") = {BranchPush(c)}
                       /\ ~i.force_push => Holding(c, "--force-with-lease") = {}
                       /\ i.create_tag
                            => /\ \E k \in 1..(BranchPush(c) - 1) : c[k][1] = "tag"
                               /\ BranchPush(c) = n - 1
                               /\ c[n][1] = "push"
                               /\ Holding(c, "refs/tags/V") = {n}
                       /\ ~i.create_tag => BranchPush(c) = n
                       /\ Len(probe.started) <= n
                       /\ \A k \in DOMAIN probe.started :
                            /\ probe.started[k] = c[k]
                            /\ \A j \in 1..(k - 1) : probe.exits[j] = "zero"

\* a forced push with a tag ran to its end: fetch, tag, branch push, tag push
C37_Witness ==
    /\ probe.fn = "on_push"
    /\ probe.in.force_push
    /\ probe.in.create_tag
    /\ probe.pc = "ended"
    /\ Len(probe.started) = 4
    /\ probe.started = probe.commands
    /\ \A k \in DOMAIN probe.exits : probe.exits[k] = "zero"

-----------------------------------------------------------------------------
(* Deleting a branch *)

\* the deletion in progress or last made
Deleting == probe.fn = "branches" /\ probe.handler = "on_delete_branch"

\* the list was built and none of its commands has run yet
DeleteBuilt == Deleting /\ probe.pc = "run" /\ probe.started = <<>>

\* the remote deletion is first and the local deletion second when the branch
\* exists in both places, the local deletion is spawned only after the remote
\* one exited zero, and a branch that exists nowhere starts no sequence
C38_RemoteThenLocal ==
    /\ DeleteBuilt
        => LET c == probe.commands
               name == probe.in.name
           IN  /\ (name \in probe.repo.remote /\ name \in probe.repo.local)
                    => /\ Len(c) = 2
                       /\ c[1] = <<"push", probe.in.remote, "--delete", name, "--progress">>
                       /\ c[2][1] = "branch" /\ c[2][3] = name
               /\ name \in probe.repo.remote \cup probe.repo.local
    /\ Deleting
        => /\ \A k \in DOMAIN probe.started :
                /\ probe.started[k] = probe.commands[k]
                /\ \A j \in 1..(k - 1) : probe.exits[j] = "zero"
           /\ probe.stopped = "info_missing" => (probe.commands = <<>> /\ ~running)

\* a deletion never targets the branch that _current_branch names
C38_NotTheRecordedBranch ==
    DeleteBuilt => probe.in.name # probe.current_branch

\* C38: branch deletion never targets the current branch; when the branch
\* exists both remotely and locally the remote deletion is the first step and
\* the local deletion the second, spawned only if the remote deletion exited
\* zero; when the branch exists in neither place no sequence is started.
C38_DeleteBranchSafe ==
    /\ (Deleting /\ probe.commands # <<>>) => probe.in.name # probe.repo.head
    /\ C38_RemoteThenLocal

-----------------------------------------------------------------------------
(* The record flagged current *)

\* the positions of the branch records flagged current
CurrentRecords == {k \in DOMAIN probe.branches : probe.branches[k].current}

\* at most one record is flagged current, and none in detached-HEAD state
C39_AtMostOneCurrent ==
    (probe.fn = "apply_repo_data" /\ probe.returned)
        => /\ Cardinality(CurrentRecords) <= 1
           /\ probe.data.detached => CurrentRecords = {}

\* C39: in the branch records derived from a snapshot at most one record is
\* flagged current, a record flagged current is present locally, and in
\* detached-HEAD state no record is flagged current.
C39_CurrentRecord ==
    /\ C39_AtMostOneCurrent
    /\ (probe.fn = "apply_repo_data" /\ probe.returned)
        => \A k \in CurrentRecords : probe.branches[k].local

=============================================================================
